---- MODULE Spec2Model ----
(***************************************************************************)
(* Model of the Makeable generation service.                               *)
(*                                                                         *)
(* createApp (src/src/agent/createApp.ts, lines 426-673) drives the LLM    *)
(* with one tool, write_file, for at most ten round trips and accumulates  *)
(* the written files in an insertion-ordered Map.  The LLM is the          *)
(* environment: each round trip either fails or returns a list of content  *)
(* blocks chosen from a bounded alphabet.                                  *)
(***************************************************************************)
EXTENDS Integers, Sequences, FiniteSets, TLC

\* ------------------------------------------------------------------------
\* Bounds of the model
\* ------------------------------------------------------------------------

\* Largest number of content blocks in one freely chosen LLM response.
MaxBlocks == 2

\* Number of content blocks the LLM stub may choose freely in one call of
\* createApp; once they are spent the stub repeats its last response or
\* gives its final answer, a response of one text block.
MaxFreeBlocks == 2

\* Number of HTTP requests to the project routes in one run of the server.
MaxRequests == 2

\* ------------------------------------------------------------------------
\* Program constants and input alphabets
\* ------------------------------------------------------------------------

\* for (let i = 0; i < 10; i++)
TurnBudget == 10

\* A JavaScript object with no field.
EmptyObject == [k \in {} |-> ""]

\* block.input as { path?: string; content?: string }.  Either field may be
\* missing, e.g. when the response was cut at max_tokens, and the empty
\* string is a string like any other for the tool's schema.
WriteInputs ==
    { EmptyObject,
      [path |-> "a.html"],
      [content |-> "X"],
      [path |-> "a.html", content |-> "X"],
      [path |-> "a.html", content |-> "Y"],
      [path |-> "b.css", content |-> "X"],
      [path |-> "a.html", content |-> ""] }

\* Content blocks of a response, before the API gives each tool_use its id.
\* The one tool offered is write_file; nothing in the code stops a response
\* from naming another tool.
BlockKinds ==
    {[type |-> "text"]}
        \cup {[type |-> "tool_use", name |-> "write_file", input |-> inp] : inp \in WriteInputs}
        \cup {[type |-> "tool_use", name |-> "read_file", input |-> [path |-> "a.html"]]}

\* existingFiles arguments of createApp: none, one file, two files in either
\* order, and a list that names one path twice.
ExistingFileLists ==
    { <<>>,
      <<[path |-> "a.html", content |-> "OLD"]>>,
      <<[path |-> "a.html", content |-> "OLD"], [path |-> "b.css", content |-> "OLD"]>>,
      <<[path |-> "b.css", content |-> "OLD"], [path |-> "a.html", content |-> "OLD"]>>,
      <<[path |-> "a.html", content |-> "OLD"], [path |-> "a.html", content |-> "NEW"]>> }

Min(a, b) == IF a < b THEN a ELSE b

\* ------------------------------------------------------------------------
\* State
\* ------------------------------------------------------------------------

VARIABLES
    pc,              \* position of the createApp call
    apiKey,          \* process.env.ANTHROPIC_API_KEY is set
    existingFiles,   \* the existingFiles argument
    generatedFiles,  \* Map<string, string>, as its entries in insertion order
    messages,        \* the conversation sent to the LLM
    i,               \* loop counter of the agentic loop
    calls,           \* client.messages.create requests issued so far
    toolLog,         \* for the turn handled last: one entry per tool_use block
    files,           \* the files of the returned AppGenerationResult
    error,           \* the error thrown to the caller, "none" if none
    stubBudget,      \* LLM stub: content blocks it may still choose freely
    stubLast         \* LLM stub: its last response

createAppVars == <<pc, apiKey, existingFiles, generatedFiles, messages, i, calls,
                   toolLog, files, error, stubBudget, stubLast>>

\* The server process: its environment, the projects Map, the objects the
\* Map and the handlers refer to, the project files on disk, the requests.
VARIABLES
    envKey,          \* process.env.ANTHROPIC_API_KEY: "missing" or "valid"
    projects,        \* const projects = new Map<string, Project>(): id -> object, 0 if absent
    heap,            \* the Project objects, by reference
    disk,            \* PROJECTS_DIR: id -> <<record>>, <<>> if there is no file
    req,             \* the requests, by slot
    lastWriter       \* per object, the slot whose handler last assigned its files, 0 if none

serverVars == <<envKey, projects, heap, disk, req, lastWriter>>

\* Two createApp calls in flight at once.
VARIABLES
    call,            \* per call: its arguments, locals and result
    maps             \* the Map objects made by `new Map()`, by reference

concVars == <<call, maps>>

\* processMessageContent and compressImage.
VARIABLES
    imgPc,             \* position in processMessageContent / compressImage
    messageContent,    \* the content argument
    item,              \* index of the item the for loop is at
    processedContent,  \* the processedContent array
    origin,            \* per entry of processedContent, the index of its item
    quality,           \* compressImage: quality
    compressedLength,  \* compressImage: compressedBuffer.length
    invoked,           \* the indexes of the items compressImage was called for
    encodings          \* the qualities the current compressImage call asked the encoder for

imageVars == <<imgPc, messageContent, item, processedContent, origin, quality,
               compressedLength, invoked, encodings>>

\* compressImage: the dimensions it asks sharp to resize to.
VARIABLES
    dimPc,             \* "start" before the computation, "done" after it
    metadata,          \* the width and height sharp reports, 0 for undefined
    width,             \* let width
    height             \* let height

dimVars == <<dimPc, metadata, width, height>>

\* createApp: its third argument.
VARIABLES
    uploadedFiles      \* the uploadedFiles argument

uploadVars == <<uploadedFiles>>

\* userStorage.
VARIABLES
    users              \* private users: Map<string, User>: id -> role, "absent" if there is none

userVars == <<users>>

\* userStorage under registrations.
VARIABLES
    userRecords,       \* private users: Map<string, User>, its entries in insertion order
    usersFile,         \* USERS_FILE as last written by save()
    reg,               \* the POST /api/auth/register requests, by slot
    clock              \* the last value Date.now() gave

registerVars == <<userRecords, usersFile, reg, clock>>

\* What a step of createApp leaves alone.
outsideCreateApp == <<serverVars, concVars, imageVars, dimVars, uploadVars, userVars, registerVars>>

\* What a step of a request handler leaves alone.
outsideServer == <<createAppVars, concVars, imageVars, dimVars, uploadVars, userVars, registerVars>>

\* What a step of one of the two calls in flight leaves alone.
outsideCalls == <<createAppVars, serverVars, imageVars, dimVars, uploadVars, userVars, registerVars>>

\* What a step of processMessageContent leaves alone.
outsideImage == <<createAppVars, serverVars, concVars, dimVars, uploadVars, userVars, registerVars>>

\* What the computation of the dimensions leaves alone.
outsideDims == <<createAppVars, serverVars, concVars, imageVars, uploadVars, userVars, registerVars>>

vars == <<createAppVars, serverVars, concVars, imageVars, dimVars, uploadVars,
         userVars, registerVars>>

\* ------------------------------------------------------------------------
\* Map<string, string> with insertion order
\* ------------------------------------------------------------------------

MapKeys(m) == {m[k].path : k \in 1..Len(m)}

MapHas(m, p) == p \in MapKeys(m)

MapIndex(m, p) == CHOOSE k \in 1..Len(m) : m[k].path = p

MapGet(m, p) == m[MapIndex(m, p)].content

\* Map.prototype.set: a new key is appended, an existing key keeps its place
\* and takes the new value.
MapSetFirstWins(m, p, c) ==
    IF MapHas(m, p) THEN m ELSE Append(m, [path |-> p, content |-> c])

MapSet(m, p, c) ==
    IF MapHas(m, p)
    THEN [m EXCEPT ![MapIndex(m, p)].content = c]
    ELSE Append(m, [path |-> p, content |-> c])

\* existingFiles.forEach(file => generatedFiles.set(file.path, file.content))
SeedFilesSkipped(m, list) == m

RECURSIVE SeedFiles(_, _)
SeedFiles(m, list) ==
    IF list = <<>> THEN m
    ELSE SeedFiles(MapSet(m, Head(list).path, Head(list).content), Tail(list))

\* const isUpdate = existingFiles && existingFiles.length > 0
IsUpdate(list) == Len(list) > 0

\* ------------------------------------------------------------------------
\* One tool_use block
\* ------------------------------------------------------------------------

\* JavaScript truthiness of input.path / input.content: the field is there
\* and is not the empty string.
Truthy(input, field) == field \in DOMAIN input /\ input[field] # ""

\* if (input.path && input.content)
InputComplete(input) == Truthy(input, "path") /\ Truthy(input, "content")

\* The is_error flag forgotten on the error result.
ErrorResultUnflagged(block) ==
    [type |-> "tool_result", tool_use_id |-> block.id, content |-> "incomplete"]

SuccessResult(block) ==
    [type |-> "tool_result", tool_use_id |-> block.id, content |-> "created"]

ErrorResult(block) ==
    [type |-> "tool_result", tool_use_id |-> block.id, content |-> "incomplete",
     is_error |-> TRUE]

\* is_error is an optional field of a tool result.
IsError(result) == "is_error" \in DOMAIN result /\ result.is_error

\* The body of `for (const block of response.content)`.  st holds the Map,
\* the toolResults array and the log of the blocks handled in this turn.
ProcessBlock(st, block) ==
    IF block.type # "tool_use" THEN st
    ELSE IF block.name # "write_file"
    THEN [st EXCEPT !.log = Append(@, [block |-> block, before |-> st.map,
                                       after |-> st.map, results |-> <<>>])]
    ELSE IF InputComplete(block.input)
    THEN LET m == MapSet(st.map, block.input.path, block.input.content)
         IN  [map |-> m,
              toolResults |-> Append(st.toolResults, SuccessResult(block)),
              log |-> Append(st.log, [block |-> block, before |-> st.map,
                                      after |-> m,
                                      results |-> <<SuccessResult(block)>>])]
    ELSE [map |-> st.map,
          toolResults |-> Append(st.toolResults, ErrorResult(block)),
          log |-> Append(st.log, [block |-> block, before |-> st.map,
                                  after |-> st.map,
                                  results |-> <<ErrorResult(block)>>])]

RECURSIVE ProcessBlocks(_, _)
ProcessBlocks(st, blocks) ==
    IF blocks = <<>> THEN st
    ELSE ProcessBlocks(ProcessBlock(st, Head(blocks)), Tail(blocks))

\* response.content.some(block => block.type === 'tool_use')
HasToolUseNonEmpty(content) == Len(content) > 0

HasToolUse(content) == \E k \in 1..Len(content) : content[k].type = "tool_use"

\* The loop condition i < 10.
LoopCondInclusive(n) == n <= TurnBudget

LoopCond(n) == n < TurnBudget

\* catch (error) { console.error(...); throw error; }: a rejected request ends
\* the call.
PcAfterRejectionRetry == "loop"

PcAfterRejection == "thrown"

\* Array.from(generatedFiles.entries()).map(([path, content]) => ({path, content}))
\* The entries taken in the reverse of the insertion order.
ResultFilesReversed(m) == [k \in 1..Len(m) |-> m[Len(m) + 1 - k]]

ResultFiles(m) == m

\* if (files.length === 0) throw ...
NoFilesGeneratedInverted(list) == Len(list) # 0

NoFilesGenerated(list) == Len(list) = 0

\* ------------------------------------------------------------------------
\* The LLM stub
\* ------------------------------------------------------------------------

\* The API gives every tool_use block an id that no other block has: here the
\* round trip and the block's position in the response.
WithIds(resp, turn) ==
    [k \in 1..Len(resp) |->
        IF resp[k].type = "tool_use"
        THEN [type |-> "tool_use", id |-> <<turn, k>>, name |-> resp[k].name,
              input |-> resp[k].input]
        ELSE resp[k]]

FinalAnswer == <<[type |-> "text"]>>

FreeResponses(n) == UNION {[1..len -> BlockKinds] : len \in 0..Min(MaxBlocks, n)}

\* ------------------------------------------------------------------------
\* Initial state
\* ------------------------------------------------------------------------

\* No server around the createApp call under study.
NoServer ==
    /\ envKey = "valid"
    /\ projects = <<>>
    /\ heap = <<>>
    /\ disk = <<>>
    /\ req = <<>>
    /\ lastWriter = <<>>

\* No second call beside the createApp call under study.
NoCalls == call = <<>> /\ maps = <<>>

\* No image among the uploaded files.
NoImages ==
    /\ imgPc = "none"
    /\ messageContent = <<>>
    /\ item = 0
    /\ processedContent = <<>>
    /\ origin = <<>>
    /\ quality = 0
    /\ compressedLength = 0
    /\ invoked = {}
    /\ encodings = <<>>

\* No resize under study.
NoDims == dimPc = "none" /\ metadata = <<>> /\ width = 0 /\ height = 0

\* createApp is called without uploadedFiles.
NoUploads == uploadedFiles = <<>>

\* A request slot without a registration.
IdleRegistration ==
    [pc |-> "idle", email |-> "", role |-> "omitted", course |-> "none",
     status |-> 0, error |-> "none", id |-> 0]

\* new UserStorage() without a users file, and no registration made.
NoRegistrations ==
    /\ userRecords = <<>>
    /\ usersFile = <<>>
    /\ reg = [r \in 1..MaxRequests |-> IdleRegistration]
    /\ clock = 0

\* The user storage plays no part.
NoUsers == users = <<>> /\ NoRegistrations

Init ==
    /\ NoDims
    /\ NoUploads
    /\ NoUsers
    /\ pc = "start"
    /\ apiKey \in BOOLEAN
    /\ existingFiles \in ExistingFileLists
    /\ generatedFiles = <<>>
    /\ messages = <<>>
    /\ i = 0
    /\ calls = 0
    /\ toolLog = <<>>
    /\ files = <<>>
    /\ error = "none"
    /\ stubBudget = MaxFreeBlocks
    /\ stubLast = <<>>
    /\ NoServer
    /\ NoCalls
    /\ NoImages

\* ------------------------------------------------------------------------
\* createApp
\* ------------------------------------------------------------------------

\* The text of the first user turn: in update mode the listing of the
\* existing files goes before the request.
UserMessage(list) ==
    IF IsUpdate(list)
    THEN [type |-> "text", text |-> "prompt", filesContext |-> list]
    ELSE [type |-> "text", text |-> "prompt"]

\* if (!apiKey) throw ...
MissingApiKey ==
    /\ pc = "start"
    /\ ~apiKey
    /\ pc' = "thrown"
    /\ error' = "no_api_key"
    /\ UNCHANGED <<apiKey, existingFiles, generatedFiles, messages, i, calls,
                   toolLog, files, stubBudget, stubLast>>
    /\ UNCHANGED outsideCreateApp

\* From the creation of the Map to the first evaluation of the loop condition.
Start ==
    /\ pc = "start"
    /\ apiKey
    /\ generatedFiles' = SeedFiles(<<>>, existingFiles)
    /\ messages' = <<[role |-> "user", content |-> <<UserMessage(existingFiles)>>]>>
    /\ i' = 0
    /\ pc' = IF LoopCond(0) THEN "loop" ELSE "after_loop"
    /\ UNCHANGED <<apiKey, existingFiles, calls, toolLog, files, error,
                   stubBudget, stubLast>>
    /\ UNCHANGED outsideCreateApp

\* One round trip that returns `resp`, and the rest of the loop body.
HandleResponse(resp) ==
    LET content == WithIds(resp, i)
        st == ProcessBlocks([map |-> generatedFiles, toolResults |-> <<>>,
                             log |-> <<>>], content)
        withAssistant == Append(messages, [role |-> "assistant", content |-> content])
    IN  /\ calls' = calls + 1
        /\ stubLast' = resp
        /\ IF HasToolUse(content)
           THEN /\ generatedFiles' = st.map
                /\ toolLog' = st.log
                /\ messages' = IF Len(st.toolResults) > 0
                               THEN Append(withAssistant,
                                           [role |-> "user", content |-> st.toolResults])
                               ELSE withAssistant
                /\ i' = i + 1
                /\ pc' = IF LoopCond(i + 1) THEN "loop" ELSE "after_loop"
           ELSE /\ messages' = withAssistant
                /\ toolLog' = <<>>
                /\ pc' = "after_loop"
                /\ UNCHANGED <<generatedFiles, i>>
        /\ UNCHANGED <<apiKey, existingFiles, files, error>>
        /\ UNCHANGED outsideCreateApp

\* The stub answers with blocks of its choice.
Turn ==
    /\ pc = "loop"
    /\ \E resp \in FreeResponses(stubBudget) :
          /\ stubBudget' = stubBudget - Len(resp)
          /\ HandleResponse(resp)

\* The stub has spent its free blocks and answers as it did in the previous
\* round trip.
TurnRepeat ==
    /\ pc = "loop"
    /\ stubBudget = 0
    /\ UNCHANGED stubBudget
    /\ HandleResponse(stubLast)

\* The stub gives its final answer: text, no tool_use block.
TurnFinal ==
    /\ pc = "loop"
    /\ UNCHANGED stubBudget
    /\ HandleResponse(FinalAnswer)

\* client.messages.create rejects; the catch block rethrows the error.
TurnFails ==
    /\ pc = "loop"
    /\ calls' = calls + 1
    /\ pc' = PcAfterRejection
    /\ error' = "upstream"
    /\ UNCHANGED <<apiKey, existingFiles, generatedFiles, messages, i, toolLog,
                   files, stubBudget, stubLast>>
    /\ UNCHANGED outsideCreateApp

\* After the loop, with at least one entry in the Map.
Return ==
    /\ pc = "after_loop"
    /\ ~NoFilesGenerated(ResultFiles(generatedFiles))
    /\ files' = ResultFiles(generatedFiles)
    /\ pc' = "returned"
    /\ UNCHANGED <<apiKey, existingFiles, generatedFiles, messages, i, calls,
                   toolLog, error, stubBudget, stubLast>>
    /\ UNCHANGED outsideCreateApp

\* After the loop, with an empty Map.
NoFiles ==
    /\ pc = "after_loop"
    /\ NoFilesGenerated(ResultFiles(generatedFiles))
    /\ pc' = "thrown"
    /\ error' = "no_files"
    /\ UNCHANGED <<apiKey, existingFiles, generatedFiles, messages, i, calls,
                   toolLog, files, stubBudget, stubLast>>
    /\ UNCHANGED outsideCreateApp

Next ==
    \/ MissingApiKey
    \/ Start
    \/ Turn
    \/ TurnRepeat
    \/ TurnFinal
    \/ TurnFails
    \/ Return
    \/ NoFiles

Spec == Init /\ [][Next]_vars

\* Every await of createApp settles: a started call keeps taking steps.
FairSpec == Spec /\ WF_vars(Next)

Finished == pc \in {"returned", "thrown"}

TypeOK ==
    /\ pc \in {"start", "loop", "after_loop", "returned", "thrown"}
    /\ i \in 0..TurnBudget
    /\ error \in {"none", "no_api_key", "upstream", "no_files"}

\* ------------------------------------------------------------------------
\* Reading the conversation
\* ------------------------------------------------------------------------

AssistantTurns == {k \in 1..Len(messages) : messages[k].role = "assistant"}

\* Positions <<turn, block>> of the tool_use blocks in the conversation.
Invocations ==
    UNION {{<<k, n>> : n \in {n \in 1..Len(messages[k].content) :
                                 messages[k].content[n].type = "tool_use"}} :
           k \in AssistantTurns}

BlockAt(pos) == messages[pos[1]].content[pos[2]]

Before(p, q) == p[1] < q[1] \/ (p[1] = q[1] /\ p[2] < q[2])

\* Positions of the tool_result blocks in the conversation.
ResultPositions ==
    UNION {{<<k, n>> : n \in {n \in 1..Len(messages[k].content) :
                                 messages[k].content[n].type = "tool_result"}} :
           k \in {k \in 1..Len(messages) : messages[k].role = "user"}}

\* The invocation at pos was answered, in the turn that follows it, with a
\* tool result that is no error.
Succeeded(pos) ==
    /\ pos[1] < Len(messages)
    /\ \E n \in 1..Len(messages[pos[1] + 1].content) :
          LET r == messages[pos[1] + 1].content[n]
          IN  /\ r.type = "tool_result"
              /\ r.tool_use_id = BlockAt(pos).id
              /\ ~IsError(r)

SuccessfulWrites(p) ==
    {pos \in Invocations : Succeeded(pos) /\ BlockAt(pos).input.path = p}

DistinctPaths(list) ==
    \A j, k \in 1..Len(list) : j # k => list[j].path # list[k].path

\* The assistant turn at index k of the conversation holds a tool_use block.
InvokesTools(k) ==
    \E n \in 1..Len(messages[k].content) : messages[k].content[n].type = "tool_use"

AllResponsesUseTools == \A k \in AssistantTurns : InvokesTools(k)

\* A write_file input that lacks a field.
LacksField(input) == "path" \notin DOMAIN input \/ "content" \notin DOMAIN input

\* ------------------------------------------------------------------------
\* Claims
\* ------------------------------------------------------------------------

\* C1: whatever the model answers, one createApp call issues at most ten LLM
\* requests and then finishes, by returning or by throwing.
C1_BoundedTermination == [](calls <= TurnBudget) /\ <>Finished

\* A call that made all ten requests, each answered with tool invocations,
\* and returned.
C1_Witness ==
    /\ pc = "returned"
    /\ calls = TurnBudget
    /\ Cardinality(AssistantTurns) = TurnBudget
    /\ AllResponsesUseTools

\* C2: last write wins.  In the returned file list every path appears once,
\* and a path with successful write_file invocations has the content of the
\* last of them, in whichever turns they were made.
C2_LastWriteWins ==
    pc = "returned" =>
        /\ DistinctPaths(files)
        /\ LET written == {pos \in Invocations : Succeeded(pos)}
               IsLast(pos) == \A q \in written :
                                 (BlockAt(q).input.path = BlockAt(pos).input.path)
                                     => (q = pos \/ Before(q, pos))
           IN  \A pos \in written :
                  /\ MapHas(files, BlockAt(pos).input.path)
                  /\ IsLast(pos) =>
                        MapGet(files, BlockAt(pos).input.path) = BlockAt(pos).input.content

\* A returned call in which one path was written twice with different
\* contents, in one turn or in two.
C2_Witness ==
    /\ pc = "returned"
    /\ \E p, q \in Invocations :
          /\ Before(p, q)
          /\ Succeeded(p) /\ Succeeded(q)
          /\ BlockAt(p).input.path = BlockAt(q).input.path
          /\ BlockAt(p).input.content # BlockAt(q).input.content

\* C3: update mode keeps untouched files.  With existing files of distinct
\* paths, a path that no successful write_file names is returned with its
\* old content, and when no response has a tool invocation the result is the
\* existing file list itself.
C3_UpdatePreservesUntouched ==
    (pc = "returned" /\ Len(existingFiles) > 0 /\ DistinctPaths(existingFiles)) =>
        /\ \A k \in 1..Len(existingFiles) :
              SuccessfulWrites(existingFiles[k].path) = {} =>
                  \E j \in 1..Len(files) : files[j] = existingFiles[k]
        /\ Invocations = {} => files = existingFiles

\* A returned update of two files: one was rewritten, the other was not.
C3_Witness ==
    /\ pc = "returned"
    /\ Len(existingFiles) = 2
    /\ DistinctPaths(existingFiles)
    /\ \E j, k \in 1..2 :
          /\ SuccessfulWrites(existingFiles[j].path) # {}
          /\ SuccessfulWrites(existingFiles[k].path) = {}

\* C4: a write_file invocation without path or without content is answered
\* with one tool result flagged as an error and carrying its id, leaves the
\* Map as it was, and the loop goes on while the budget lasts.
C4_IncompleteWriteRejected ==
    \A n \in 1..Len(toolLog) :
        LET e == toolLog[n]
        IN  (e.block.name = "write_file" /\ LacksField(e.block.input)) =>
                /\ Len(e.results) = 1
                /\ IsError(e.results[1])
                /\ e.results[1].tool_use_id = e.block.id
                /\ e.after = e.before
                /\ \E r \in ResultPositions : BlockAt(r) = e.results[1]
                /\ (error = "none" /\ i < TurnBudget) => pc = "loop"

\* The loop is about to call the LLM again after an invocation without
\* content met a Map that already held a file.
C4_Witness ==
    /\ pc = "loop"
    /\ \E n \in 1..Len(toolLog) :
          /\ toolLog[n].block.name = "write_file"
          /\ "content" \notin DOMAIN toolLog[n].block.input
          /\ Len(toolLog[n].before) > 0

\* C5: every write_file invocation whose input has a path string and a
\* content string, of any value, is committed to the Map and answered with
\* a tool result that is no error.
C5_CompleteWriteCommitted ==
    \A n \in 1..Len(toolLog) :
        LET e == toolLog[n]
        IN  (e.block.name = "write_file" /\ ~LacksField(e.block.input)) =>
                /\ MapHas(e.after, e.block.input.path)
                /\ MapGet(e.after, e.block.input.path) = e.block.input.content
                /\ Len(e.results) = 1
                /\ ~IsError(e.results[1])

\* C6: at every LLM call after the first, each tool invocation of the
\* preceding assistant turn, whatever its tool name, has exactly one tool
\* result with its id in the conversation, and every tool result answers an
\* invocation.
C6_EveryInvocationAnswered ==
    (pc = "loop" /\ calls > 0) =>
        /\ \A pos \in Invocations :
              Cardinality({r \in ResultPositions :
                              BlockAt(r).tool_use_id = BlockAt(pos).id}) = 1
        /\ \A r \in ResultPositions :
              \E pos \in Invocations : BlockAt(pos).id = BlockAt(r).tool_use_id

\* C7: createApp throws the 'no files' error exactly when the Map is empty
\* once the loop has ended; with a non-empty Map it returns a non-empty list.
C7_NoFilesIffEmpty ==
    /\ error = "no_files" => (pc = "thrown" /\ Len(generatedFiles) = 0)
    /\ pc = "returned" =>
          (Len(generatedFiles) > 0 /\ Len(files) > 0 /\ error = "none")
    /\ (Finished /\ error \notin {"upstream", "no_api_key"}) =>
          (error = "no_files" <=> Len(generatedFiles) = 0)

\* The loop ran and ended with an empty Map.
C7_Witness == error = "no_files" /\ calls > 0

\* C8: running out of turns is no error.  When all ten responses carry tool
\* invocations and a file was written or seeded, createApp returns the
\* accumulated files.
C8_BudgetExhaustionReturns ==
    ( /\ Finished
      /\ Cardinality(AssistantTurns) = TurnBudget
      /\ AllResponsesUseTools
      /\ (Len(existingFiles) > 0 \/ \E pos \in Invocations : Succeeded(pos)) ) =>
        /\ pc = "returned"
        /\ error = "none"
        /\ Len(files) > 0
        /\ files = generatedFiles

\* Ten responses with tool invocations in update mode, none of them a
\* successful write.
C8_Witness ==
    /\ pc = "returned"
    /\ Cardinality(AssistantTurns) = TurnBudget
    /\ AllResponsesUseTools
    /\ Len(existingFiles) > 0
    /\ \A pos \in Invocations : ~Succeeded(pos)

\* C9: the loop stops at the first response without a tool invocation: that
\* response is the last turn of the conversation, no LLM call follows it, and
\* when it is the first response there was exactly one round trip.
C9_StopsAtFirstPlainResponse ==
    \A k \in AssistantTurns :
        ~InvokesTools(k) =>
            /\ k = Len(messages)
            /\ calls = Cardinality(AssistantTurns)
            /\ pc # "loop"
            /\ k = 2 => calls = 1

\* The first response had no tool invocation and the call is over.
C9_Witness ==
    /\ Finished
    /\ calls = 1
    /\ Len(messages) = 2
    /\ ~InvokesTools(2)

\* C10: a failed LLM call is not retried.  It is the last request of the
\* call, createApp throws the upstream error and returns no file list, also
\* when earlier turns wrote files.
C10_UpstreamFailureSurfaces ==
    (calls > Cardinality(AssistantTurns) \/ error = "upstream") =>
        /\ pc = "thrown"
        /\ error = "upstream"
        /\ calls = Cardinality(AssistantTurns) + 1
        /\ files = <<>>

\* The LLM call failed after an earlier turn had written a file.
C10_Witness ==
    /\ error = "upstream"
    /\ existingFiles = <<>>
    /\ Len(generatedFiles) > 0

\* C11 as stated: a call fails only when an LLM call failed or when the turn
\* budget was exhausted with no file in the Map.
C11_FailsOnlyOnExhaustionOrUpstream ==
    pc = "thrown" =>
        \/ calls > Cardinality(AssistantTurns)
        \/ /\ Cardinality(AssistantTurns) = TurnBudget
           /\ AllResponsesUseTools
           /\ Len(generatedFiles) = 0

\* C11, amended: a call fails only when the API key is not set, when an LLM
\* call failed, or when the loop ended, by exhaustion or by a response
\* without tool invocation, with no file in the Map; every other finished
\* call returned a result.
C11_FailureCases ==
    /\ pc = "thrown" =>
          \/ ~apiKey
          \/ calls > Cardinality(AssistantTurns)
          \/ /\ Len(generatedFiles) = 0
             /\ \/ Cardinality(AssistantTurns) = TurnBudget
                \/ \E k \in AssistantTurns : ~InvokesTools(k)
    /\ (Finished /\ apiKey /\ calls = Cardinality(AssistantTurns)
            /\ Len(generatedFiles) > 0) => pc = "returned"

\* A call with an API key and no failed request that threw because the model
\* answered at once without tool invocation.
C11_Witness ==
    /\ pc = "thrown"
    /\ apiKey
    /\ calls = 1
    /\ Cardinality(AssistantTurns) = 1
    /\ Len(generatedFiles) = 0

\* C12: in create mode the returned list holds exactly the paths that had a
\* successful write_file, each once, in the order of their first write; one
\* write followed by a plain response yields that one file.
C12_CreateModeFileList ==
    (pc = "returned" /\ Len(existingFiles) = 0) =>
        LET written == {pos \in Invocations : Succeeded(pos)}
            First(p) == CHOOSE pos \in written :
                            /\ BlockAt(pos).input.path = p
                            /\ \A q \in written :
                                  BlockAt(q).input.path = p => (q = pos \/ Before(pos, q))
        IN  /\ DistinctPaths(files)
            /\ MapKeys(files) = {BlockAt(pos).input.path : pos \in written}
            /\ \A j, k \in 1..Len(files) :
                  j < k => Before(First(files[j].path), First(files[k].path))
            /\ Cardinality(written) = 1 =>
                  \E pos \in written :
                      files = <<[path |-> BlockAt(pos).input.path,
                                 content |-> BlockAt(pos).input.content]>>

\* A create-mode call that returned two files, the first of them written
\* again after the second had been written.
C12_Witness ==
    /\ pc = "returned"
    /\ Len(existingFiles) = 0
    /\ Len(files) = 2
    /\ \E p, q, r \in Invocations :
          /\ Succeeded(p) /\ Succeeded(q) /\ Succeeded(r)
          /\ Before(p, q) /\ Before(q, r)
          /\ BlockAt(p).input.path = files[1].path
          /\ BlockAt(q).input.path = files[2].path
          /\ BlockAt(r).input.path = files[1].path

\* ------------------------------------------------------------------------
\* The server: POST /api/generate and POST /api/projects/:id/iterate
\* (src/unnamed/part_002, lines 733-1107)
\* ------------------------------------------------------------------------

Requests == 1..MaxRequests

Users == {"u1", "u2"}

\* The id of the project found on disk at startup, also the id a client may
\* name; `project_${Date.now()}` of the request in slot r is 1 + r.
KnownId == 1

FreshId(r) == KnownId + r

ProjectIds == KnownId..FreshId(MaxRequests)

\* The prompt of the request in slot r is r; the stored project came from
\* prompt 0.  prompt strings are kept as the list of their parts.
\* generateProjectName(prompt)
GenerateProjectName(prompt) == <<"name", prompt>>

\* What createApp does to the Map in one call, as established for the loop:
\* the successful write_file invocations of the run, in order: none, or one
\* to a.html and one to b.css.
ServerWrites ==
    { <<>>,
      <<[path |-> "a.html", content |-> "X"], [path |-> "b.css", content |-> "Y"]>> }

RECURSIVE ApplyWrites(_, _)
ApplyWrites(m, writes) ==
    IF writes = <<>> THEN m
    ELSE ApplyWrites(MapSet(m, Head(writes).path, Head(writes).content), Tail(writes))

\* createApp returns a result without files where it should throw.
FailureAsResult(e) == [ok |-> TRUE, error |-> e, files |-> <<>>, writes |-> <<>>]

\* throw new Error(...)
Failure(e) == [ok |-> FALSE, error |-> e, files |-> <<>>, writes |-> <<>>]

\* The ways a call createApp(prompt, existing, files) can end.
CreateAppOutcomes(existing, key) ==
    IF key = "missing"
    THEN {Failure("no_api_key")}
    ELSE {Failure("upstream")}
            \cup {LET m == ResultFiles(ApplyWrites(SeedFiles(<<>>, existing), w))
                  IN  IF NoFilesGenerated(m) THEN Failure("no_files")
                      ELSE [ok |-> TRUE, error |-> "none", files |-> m, writes |-> w]
                  : w \in ServerWrites}

\* if (!apiKey || apiKey === 'your_api_key_here' || apiKey.trim().length < 20)
KeyUsable(key) == key = "valid"

\* The mock result of /api/generate.
MockFiles == <<[path |-> "index.html", content |-> "mock"]>>

ErrorFilesNone == <<>>

\* The error page of /api/generate.
ErrorFiles == <<[path |-> "index.html", content |-> "error"]>>

\* const placeholderProject: Project = {...}
PlaceholderProjectEmptyHistory(id, prompt, now, userId) ==
    [id |-> id, name |-> GenerateProjectName(prompt), prompt |-> <<prompt>>,
     promptHistory |-> <<>>, files |-> <<>>, createdAt |-> now,
     userId |-> userId]

PlaceholderProject(id, prompt, now, userId) ==
    [id |-> id, name |-> GenerateProjectName(prompt), prompt |-> <<prompt>>,
     promptHistory |-> <<prompt>>, files |-> <<>>, createdAt |-> now,
     userId |-> userId]

\* const updatedProject: Project = {...}
UpdatedProject(id, prompt, placeholder, resultFiles, userId) ==
    [id |-> id, name |-> GenerateProjectName(prompt), prompt |-> <<prompt>>,
     promptHistory |-> placeholder.promptHistory, files |-> resultFiles,
     createdAt |-> placeholder.createdAt, userId |-> userId]

\* const errorProject: Project = {...}: no promptHistory.
ErrorProject(id, prompt, placeholder, userId) ==
    [id |-> id, name |-> GenerateProjectName(prompt), prompt |-> <<prompt>>,
     files |-> ErrorFiles, createdAt |-> placeholder.createdAt, userId |-> userId]

\* existingProject.files = result.files
\* existingProject.prompt = `${existingProject.prompt}\n\nIteration: ${prompt}`
IterateUpdateMerging(project, resultFiles, prompt) ==
    [project EXCEPT !.files = ApplyWrites(project.files, resultFiles),
                    !.prompt = Append(@, prompt)]

IterateUpdate(project, resultFiles, prompt) ==
    [project EXCEPT !.files = resultFiles, !.prompt = Append(@, prompt)]

\* The project loaded from PROJECTS_DIR at startup.
StoredProject ==
    [id |-> KnownId, name |-> GenerateProjectName(0), prompt |-> <<0>>,
     promptHistory |-> <<0>>,
     files |-> <<[path |-> "a.html", content |-> "OLD"]>>,
     createdAt |-> 0, userId |-> "u1"]

\* The Project objects: the one loaded at startup and, per request, the
\* placeholderProject, the updatedProject and the errorProject it may make.
StoredRef == 1

PlaceholderRef(r) == 3 * r - 1

UpdatedRef(r) == 3 * r

ErrorRef(r) == 3 * r + 1

HeapRefs == StoredRef..ErrorRef(MaxRequests)

Unallocated == [id |-> 0]

\* No cookie named token and no authorization header.
NoToken == [sig |-> "none", userId |-> "none"]

IdleRequest ==
    [kind |-> "none", user |-> "none", id |-> 0, pc |-> "idle", obj |-> 0,
     arg |-> <<>>, writes |-> <<>>, result |-> <<>>, committed |-> FALSE,
     local |-> <<>>, threw |-> FALSE, token |-> NoToken,
     status |-> 0, responses |-> 0, events |-> <<>>]

\* No createApp call under study: the server runs its own.
NoCreateApp ==
    /\ pc = "none"
    /\ apiKey = TRUE
    /\ existingFiles = <<>>
    /\ generatedFiles = <<>>
    /\ messages = <<>>
    /\ i = 0
    /\ calls = 0
    /\ toolLog = <<>>
    /\ files = <<>>
    /\ error = "none"
    /\ stubBudget = 0
    /\ stubLast = <<>>

ServerInit ==
    /\ NoCreateApp
    /\ NoDims
    /\ NoUploads
    /\ NoUsers
    /\ NoCalls
    /\ NoImages
    /\ envKey \in {"missing", "valid"}
    /\ heap = [ref \in HeapRefs |-> IF ref = StoredRef THEN StoredProject ELSE Unallocated]
    /\ projects = [id \in ProjectIds |-> IF id = KnownId THEN StoredRef ELSE 0]
    /\ disk = [id \in ProjectIds |-> IF id = KnownId THEN <<StoredProject>> ELSE <<>>]
    /\ req = [r \in Requests |-> IdleRequest]
    /\ lastWriter = [ref \in HeapRefs |-> 0]

\* Requests take the slots in order.
CanArrive(r) ==
    /\ req[r].pc = "idle"
    /\ \A s \in Requests : s < r => req[s].pc # "idle"

\* res.json(...) or res.status(s).json(...): one more response attempt; the
\* first one is the response the client gets.
Respond(q, s) ==
    [q EXCEPT !.status = IF q.responses = 0 THEN s ELSE @,
              !.responses = @ + 1,
              !.events = Append(@, "responded")]

\* The handler has returned: its locals are gone.
Done(q) == [q EXCEPT !.pc = "done", !.local = <<>>]

\* POST /api/generate without prompt: 400.
GenerateRejected(r) ==
    /\ CanArrive(r)
    /\ req' = [req EXCEPT ![r] = Done(Respond([@ EXCEPT !.kind = "generate"], 400))]
    /\ UNCHANGED <<envKey, projects, heap, disk, lastWriter, outsideServer>>

\* POST /api/generate up to the first await: the placeholder is made, put in
\* the Map and its write to disk started.
GenerateArrive(r) ==
    /\ CanArrive(r)
    /\ \E u \in Users, pid \in {0, KnownId} :
          LET id == IF pid = 0 THEN FreshId(r) ELSE pid
              placeholderProject == PlaceholderProject(id, r, r, u)
          IN  /\ heap' = [heap EXCEPT ![PlaceholderRef(r)] = placeholderProject]
              /\ projects' = [projects EXCEPT ![id] = PlaceholderRef(r)]
              /\ req' = [req EXCEPT ![r] =
                            [@ EXCEPT !.kind = "generate", !.user = u, !.id = id,
                                      !.local = <<placeholderProject>>,
                                      !.pc = "g_write_placeholder",
                                      !.events = Append(@, "stored")]]
    /\ UNCHANGED <<envKey, disk, lastWriter, outsideServer>>

\* The result of a generation is put in the Map under the request's id and
\* its write to disk started.
StoreGenerated(r, q, ref, project, nextPc) ==
    /\ heap' = [heap EXCEPT ![ref] = project]
    /\ projects' = [projects EXCEPT ![q.id] = ref]
    /\ lastWriter' = [lastWriter EXCEPT ![ref] = r]
    /\ req' = [req EXCEPT ![r] = [q EXCEPT !.local = <<project>>, !.pc = nextPc]]

\* The placeholder is on disk: the response is sent, then the generation
\* starts, a createApp call or, without a usable key, the mock result.
GeneratePlaceholderWritten(r) ==
    /\ req[r].pc = "g_write_placeholder"
    /\ disk' = [disk EXCEPT ![req[r].id] = req[r].local]
    /\ LET q == Respond([req[r] EXCEPT !.events = Append(@, "written")], 200)
       IN  IF KeyUsable(envKey)
           THEN /\ req' = [req EXCEPT ![r] = [q EXCEPT !.pc = "g_createApp"]]
                /\ UNCHANGED <<heap, projects, lastWriter>>
           ELSE StoreGenerated(r, [q EXCEPT !.result = MockFiles, !.committed = TRUE],
                               UpdatedRef(r),
                               UpdatedProject(q.id, r, heap[PlaceholderRef(r)],
                                              MockFiles, q.user),
                               "g_write_result")
    /\ UNCHANGED <<envKey, outsideServer>>

\* The write of the placeholder fails: the outer catch answers 500.
GeneratePlaceholderWriteFails(r) ==
    /\ req[r].pc = "g_write_placeholder"
    /\ req' = [req EXCEPT ![r] = Done(Respond(@, 500))]
    /\ UNCHANGED <<envKey, projects, heap, disk, lastWriter, outsideServer>>

\* createApp(prompt, undefined, files) settles.
GenerateCreateAppDone(r) ==
    /\ req[r].pc = "g_createApp"
    /\ \E out \in CreateAppOutcomes(<<>>, envKey) :
          LET q == [req[r] EXCEPT !.threw = out.error # "none", !.events =
                        IF out.error = "no_api_key" THEN @ ELSE Append(@, "llm")]
          IN  IF out.ok
              THEN StoreGenerated(r, [q EXCEPT !.result = out.files, !.committed = TRUE],
                                  UpdatedRef(r),
                                  UpdatedProject(q.id, r, heap[PlaceholderRef(r)],
                                                 out.files, q.user),
                                  "g_write_result")
              ELSE StoreGenerated(r, [q EXCEPT !.result = <<"failed">>],
                                  ErrorRef(r),
                                  ErrorProject(q.id, r, heap[PlaceholderRef(r)], q.user),
                                  "g_write_error")
    /\ UNCHANGED <<envKey, disk, outsideServer>>

\* The generated project is on disk.
GenerateResultWritten(r) ==
    /\ req[r].pc = "g_write_result"
    /\ disk' = [disk EXCEPT ![req[r].id] = req[r].local]
    /\ req' = [req EXCEPT ![r] = Done(@)]
    /\ UNCHANGED <<envKey, projects, heap, lastWriter, outsideServer>>

\* The write of the generated project fails: the inner catch stores the
\* error page.
GenerateResultWriteFails(r) ==
    /\ req[r].pc = "g_write_result"
    /\ StoreGenerated(r, req[r], ErrorRef(r),
                      ErrorProject(req[r].id, r, heap[PlaceholderRef(r)], req[r].user),
                      "g_write_error")
    /\ UNCHANGED <<envKey, disk, outsideServer>>

\* The error page is on disk.
GenerateErrorWritten(r) ==
    /\ req[r].pc = "g_write_error"
    /\ disk' = [disk EXCEPT ![req[r].id] = req[r].local]
    /\ req' = [req EXCEPT ![r] = Done(@)]
    /\ UNCHANGED <<envKey, projects, heap, lastWriter, outsideServer>>

\* The write of the error page fails: the outer catch answers 500, after the
\* response of the request has been sent.
GenerateErrorWriteFails(r) ==
    /\ req[r].pc = "g_write_error"
    /\ req' = [req EXCEPT ![r] = Done(Respond(@, 500))]
    /\ UNCHANGED <<envKey, projects, heap, disk, lastWriter, outsideServer>>

\* POST /api/projects/:id/iterate up to the await of createApp: 404, 403, or
\* the call with the project's files.
IterateArrive(r) ==
    /\ CanArrive(r)
    /\ \E u \in Users, pid \in {KnownId, FreshId(1)} :
          LET q == [req[r] EXCEPT !.kind = "iterate", !.user = u, !.id = pid]
              existingProject == projects[pid]
          IN  req' = [req EXCEPT ![r] =
                  IF existingProject = 0
                  THEN Done(Respond(q, 404))
                  ELSE IF heap[existingProject].userId # u
                  THEN Done(Respond(q, 403))
                  ELSE [q EXCEPT !.obj = existingProject,
                                 !.arg = heap[existingProject].files,
                                 !.pc = "i_createApp"]]
    /\ UNCHANGED <<envKey, projects, heap, disk, lastWriter, outsideServer>>

\* createApp(prompt, existingProject.files, files) settles: on success the
\* project object is updated and its write to disk started, on failure the
\* catch block answers 500.
IterateCreateAppDone(r) ==
    /\ req[r].pc = "i_createApp"
    /\ \E out \in CreateAppOutcomes(req[r].arg, envKey) :
          LET q == [req[r] EXCEPT !.threw = out.error # "none", !.events =
                        IF out.error = "no_api_key" THEN @ ELSE Append(@, "llm")]
          IN  IF out.ok
              THEN LET updated == IterateUpdate(heap[q.obj], out.files, r)
                   IN  /\ heap' = [heap EXCEPT ![q.obj] = updated]
                       /\ req' = [req EXCEPT ![r] =
                                     [q EXCEPT !.result = out.files,
                                               !.writes = out.writes,
                                               !.committed = TRUE,
                                               !.local = <<updated>>,
                                               !.pc = "i_write"]]
                       /\ lastWriter' = [lastWriter EXCEPT ![q.obj] = r]
              ELSE /\ req' = [req EXCEPT ![r] =
                                 Done(Respond([q EXCEPT !.result = <<"failed">>], 500))]
                   /\ UNCHANGED <<heap, lastWriter>>
    /\ UNCHANGED <<envKey, projects, disk, outsideServer>>

\* The updated project is on disk: 200 with the project's files.
IterateWritten(r) ==
    /\ req[r].pc = "i_write"
    /\ disk' = [disk EXCEPT ![req[r].id] = req[r].local]
    /\ req' = [req EXCEPT ![r] = Done(Respond(@, 200))]
    /\ UNCHANGED <<envKey, projects, heap, lastWriter, outsideServer>>

\* The write fails: the catch block answers 500.
IterateWriteFails(r) ==
    /\ req[r].pc = "i_write"
    /\ req' = [req EXCEPT ![r] = Done(Respond(@, 500))]
    /\ UNCHANGED <<envKey, projects, heap, disk, lastWriter, outsideServer>>

ServerNext ==
    \E r \in Requests :
        \/ GenerateRejected(r)
        \/ GenerateArrive(r)
        \/ GeneratePlaceholderWritten(r)
        \/ GeneratePlaceholderWriteFails(r)
        \/ GenerateCreateAppDone(r)
        \/ GenerateResultWritten(r)
        \/ GenerateResultWriteFails(r)
        \/ GenerateErrorWritten(r)
        \/ GenerateErrorWriteFails(r)
        \/ IterateArrive(r)
        \/ IterateCreateAppDone(r)
        \/ IterateWritten(r)
        \/ IterateWriteFails(r)

ServerSpec == ServerInit /\ [][ServerNext]_vars

\* Every await of a handler settles: createApp ends (C1) and fs.writeFile
\* resolves or rejects.
Continue(r) ==
    \/ GeneratePlaceholderWritten(r)
    \/ GeneratePlaceholderWriteFails(r)
    \/ GenerateCreateAppDone(r)
    \/ GenerateResultWritten(r)
    \/ GenerateResultWriteFails(r)
    \/ GenerateErrorWritten(r)
    \/ GenerateErrorWriteFails(r)
    \/ IterateCreateAppDone(r)
    \/ IterateWritten(r)
    \/ IterateWriteFails(r)

FairServerSpec == ServerSpec /\ \A r \in Requests : WF_vars(Continue(r))

\* The project a request finds under an id, <<>> if there is none.
ProjectOf(id) == IF projects[id] = 0 THEN <<>> ELSE <<heap[projects[id]]>>

\* Iterate requests r and s ran on the same project object from the same
\* file list, and both got a result from createApp.
Overlapped(r, s) ==
    /\ r # s
    /\ req[r].kind = "iterate" /\ req[r].committed
    /\ req[s].kind = "iterate" /\ req[s].committed
    /\ req[r].obj = req[s].obj
    /\ req[r].arg = req[s].arg

\* C13: two iterate requests on one project are not serialized: both can be
\* given the same file list, and then the project's files are the result of
\* whichever stored last, the result of the other being lost.
C13_IterateLostUpdate ==
    \A r, s \in Requests :
        (Overlapped(r, s) /\ lastWriter[req[s].obj] = s)
            => heap[req[s].obj].files = req[s].result

\* Both requests were in createApp at once; the first stored b.css, which the
\* project no longer has after the second stored.
C13_Witness ==
    \E r, s \in Requests :
        /\ Overlapped(r, s)
        /\ lastWriter[req[s].obj] = s
        /\ req[r].status = 200
        /\ req[s].status = 200
        /\ "b.css" \in MapKeys(req[r].result)
        /\ "b.css" \notin MapKeys(heap[req[s].obj].files)
        /\ "b.css" \notin MapKeys(disk[req[s].id][1].files)

\* promptHistory is an optional field of Project.
HistoryOf(project) ==
    IF "promptHistory" \in DOMAIN project THEN project.promptHistory ELSE <<>>

\* The project is the placeholder of the generate request q with prompt r.
IsPlaceholderOf(project, q, r) ==
    /\ project.id = q.id
    /\ project.userId = q.user
    /\ project.files = <<>>
    /\ HistoryOf(project) = <<r>>

Position(events, e) ==
    IF \E n \in 1..Len(events) : events[n] = e
    THEN CHOOSE n \in 1..Len(events) : events[n] = e /\ \A m \in 1..(n - 1) : events[m] # e
    ELSE 0

\* What a step of the server does to the generate request in slot r.
C14_Step(r) ==
    /\ \* the request gets past its checks: its placeholder is in the Map
       (req[r].pc = "idle" /\ req'[r].pc = "g_write_placeholder")
           => /\ projects'[req'[r].id] # 0
              /\ IsPlaceholderOf(heap'[projects'[req'[r].id]], req'[r], r)
              /\ req'[r].responses = 0
    /\ \* the request is answered with the project: the placeholder is on disk
       (req[r].kind = "generate" /\ req[r].responses = 0 /\ req'[r].status = 200)
           => /\ req[r].events = <<"stored">>
              /\ disk'[req[r].id] # <<>>
              /\ IsPlaceholderOf(disk'[req[r].id][1], req[r], r)
              /\ "llm" \notin {req'[r].events[n] : n \in 1..Len(req'[r].events)}
    /\ \* createApp has run for the request: the response was sent before
       (req'[r].kind = "generate" /\ Position(req'[r].events, "llm") > 0)
           => /\ req[r].responses > 0
              /\ Position(req'[r].events, "stored") = 1
              /\ Position(req'[r].events, "written") = 2
              /\ Position(req'[r].events, "responded") = 3
              /\ Position(req'[r].events, "llm") = 4

\* C14: POST /api/generate puts a placeholder project (no files, a prompt
\* history holding exactly the request's prompt) in the Map and writes it to
\* disk before it sends the HTTP response, and sends the response before the
\* first LLM call.
C14_PlaceholderBeforeResponse == [][\A r \in Requests : C14_Step(r)]_vars

C14_Witness ==
    \E r \in Requests :
        /\ req[r].kind = "generate"
        /\ req[r].status = 200
        /\ req[r].events = <<"stored", "written", "responded", "llm">>
        /\ req[r].pc = "g_write_result"

\* The generate request in slot r was answered with its placeholder and its
\* generation is under way.
Generating(r) ==
    req[r].kind = "generate" /\ req[r].status = 200 /\ req[r].pc # "done"

\* A write to PROJECTS_DIR made for the request in slot r was rejected.
WriteFailed(r) ==
    \/ req[r].kind = "generate" /\ req[r].status = 500
    \/ req[r].kind = "generate" /\ req[r].responses > 1
    \/ req[r].kind = "generate" /\ req[r].committed /\ heap[ErrorRef(r)] # Unallocated
    \/ req[r].kind = "iterate" /\ req[r].committed /\ req[r].status = 500

\* The generation of slot r is over and the project under its id has files.
GenerationOver(r) ==
    /\ req[r].pc = "done"
    /\ req[r].id \in ProjectIds
    /\ projects[req[r].id] # 0
    /\ heap[projects[req[r].id]].files # <<>>

\* C15: if every createApp call settles and no write to disk is rejected,
\* every generate request answered with a placeholder ends, and the project
\* under its id gets a non-empty file list: generated files, the mock page or
\* the error page.
C15_GenerationEnds ==
    \A r \in Requests :
        Generating(r) ~> (GenerationOver(r) \/ \E s \in Requests : WriteFailed(s))

\* A generation that failed has ended with the error page under its id.
C15_Witness ==
    \E r \in Requests :
        /\ req[r].kind = "generate"
        /\ req[r].status = 200
        /\ GenerationOver(r)
        /\ ~req[r].committed
        /\ projects[req[r].id] = ErrorRef(r)
        /\ \A s \in Requests : ~WriteFailed(s)

\* The content the call of slot r last wrote to path p, <<>> if it wrote none.
LastWritten(r, p) ==
    LET ws == SelectSeq(req[r].writes, LAMBDA w : w.path = p)
    IN  IF ws = <<>> THEN <<>> ELSE <<ws[Len(ws)].content>>

\* What the step in which the iterate request in slot r gets its result does
\* to the project object.
C16_Step(r) ==
    (req[r].pc = "i_createApp" /\ req'[r].pc = "i_write")
        => LET before == heap[req[r].obj]
               after  == heap'[req[r].obj]
               prior  == req[r].arg
           IN  /\ after.files = req'[r].result
               /\ \A n \in 1..Len(prior) :
                     \E m \in 1..Len(after.files) :
                        /\ after.files[m].path = prior[n].path
                        /\ after.files[m].content =
                              IF LastWritten(r, prior[n].path)' = <<>>
                              THEN prior[n].content
                              ELSE LastWritten(r, prior[n].path)'[1]
               /\ after.id = before.id
               /\ after.name = before.name
               /\ after.createdAt = before.createdAt
               /\ after.userId = before.userId
               /\ req'[r].local = <<after>>

\* C16: a successful iterate request leaves the project with the file list
\* the loop returned; every path of the list the loop was given is in it, with
\* the content it had unless a write_file of the call replaced it; id, name,
\* createdAt and userId of the project are as before.
C16_IterateReplacesFiles == [][\A r \in Requests : C16_Step(r)]_vars

\* An iterate request answered 200 whose call rewrote a.html and left the
\* project, in the Map and on disk, with the returned list.
C16_Witness ==
    \E r \in Requests :
        /\ req[r].kind = "iterate"
        /\ req[r].status = 200
        /\ req[r].arg = <<[path |-> "a.html", content |-> "OLD"]>>
        /\ req[r].result = <<[path |-> "a.html", content |-> "X"],
                             [path |-> "b.css", content |-> "Y"]>>
        /\ heap[req[r].obj].files = req[r].result
        /\ disk[req[r].id] = <<heap[req[r].obj]>>
        /\ heap[req[r].obj].name = StoredProject.name

\* C17 as stated: every successful iterate request appends its prompt to the
\* project's promptHistory, which so has one entry more, the newest being the
\* prompt of the request.
C17_IterateAppendsHistory ==
    [][\A r \in Requests :
          (req[r].pc = "i_createApp" /\ req'[r].pc = "i_write")
              => LET before == HistoryOf(heap[req[r].obj])
                     after  == HistoryOf(heap'[req[r].obj])
                 IN  after = Append(before, r)]_vars

\* The createApp call of the request in slot r threw (a generation error:
\* no key, an LLM call failed upstream, or no files).
GenerationFailed(r) ==
    /\ req[r].kind \in {"generate", "iterate"}
    /\ ~req[r].committed
    /\ req[r].result = <<"failed">>

\* C19 as stated: a generate or iterate request whose generation fails with a
\* generation error is answered with HTTP 500 (createApp lets no compression
\* error out, so the 400 case has no run).
C19_GenerationErrorIs500 ==
    \A r \in Requests : GenerationFailed(r) => req[r].status = 500

\* ------------------------------------------------------------------------
\* Two createApp calls at once (src/src/agent/createApp.ts, lines 426-673)
\* ------------------------------------------------------------------------

Calls == {1, 2}

\* Responses with a tool_use block the stub gives to one call, at most.
MaxCallTurns == 2

WriteBlock(p, c) ==
    [type |-> "tool_use", name |-> "write_file", input |-> [path |-> p, content |-> c]]

CallExistingFiles == {<<>>, <<[path |-> "a.html", content |-> "OLD"]>>}

CallResponses ==
    { <<WriteBlock("a.html", "X")>>,
      <<WriteBlock("b.css", "X")>>,
      <<[type |-> "text"], WriteBlock("a.html", "Y")>> }

\* const generatedFiles: Map<string, string> = new Map(): one object per call.
NewMapShared(c) == 1

NewMap(c) == c

\* The locals of a call before its first round trip.
StartOf(existing) ==
    [map |-> SeedFiles(<<>>, existing),
     messages |-> <<[role |-> "user", content |-> <<UserMessage(existing)>>]>>,
     i |-> 0,
     pc |-> IF LoopCond(0) THEN "loop" ELSE "after_loop"]

\* The loop body for one response, on the locals st of a call.
TurnOf(st, resp) ==
    LET blocks == WithIds(resp, st.i)
        done == ProcessBlocks([map |-> st.map, toolResults |-> <<>>, log |-> <<>>],
                              blocks)
        withAssistant == Append(st.messages, [role |-> "assistant", content |-> blocks])
    IN  IF HasToolUse(blocks)
        THEN [map |-> done.map,
              messages |-> IF Len(done.toolResults) > 0
                           THEN Append(withAssistant,
                                       [role |-> "user", content |-> done.toolResults])
                           ELSE withAssistant,
              i |-> st.i + 1,
              pc |-> IF LoopCond(st.i + 1) THEN "loop" ELSE "after_loop"]
        ELSE [map |-> st.map, messages |-> withAssistant, i |-> st.i,
              pc |-> "after_loop"]

\* A call run by itself on the given responses.
RECURSIVE RunAlone(_, _)
RunAlone(st, responses) ==
    IF responses = <<>> THEN st
    ELSE RunAlone(TurnOf(st, Head(responses)), Tail(responses))

ConcInit ==
    /\ NoCreateApp
    /\ NoDims
    /\ NoUploads
    /\ NoUsers
    /\ NoServer
    /\ NoImages
    /\ call \in [Calls -> {[pc |-> "start", existingFiles |-> e, map |-> 0,
                           messages |-> <<>>, i |-> 0, responses |-> <<>>,
                           files |-> <<>>, error |-> "none"] :
                              e \in CallExistingFiles}]
    /\ maps = [h \in Calls |-> <<>>]

\* From the entry of createApp to its first await in the loop.
CallStart(c) ==
    /\ call[c].pc = "start"
    /\ LET st == StartOf(call[c].existingFiles)
           h == NewMap(c)
       IN  /\ maps' = [maps EXCEPT ![h] = st.map]
           /\ call' = [call EXCEPT ![c] =
                          [@ EXCEPT !.map = h, !.messages = st.messages,
                                    !.i = st.i, !.pc = st.pc]]
    /\ UNCHANGED outsideCalls

\* client.messages.create resolves for call c: the rest of the loop body, up
\* to the next await.
CallTurn(c) ==
    /\ call[c].pc = "loop"
    /\ \E resp \in IF Len(call[c].responses) < MaxCallTurns
                   THEN CallResponses \cup {FinalAnswer}
                   ELSE {FinalAnswer} :
          LET h == call[c].map
              st == TurnOf([map |-> maps[h], messages |-> call[c].messages,
                            i |-> call[c].i, pc |-> call[c].pc], resp)
          IN  /\ maps' = [maps EXCEPT ![h] = st.map]
              /\ call' = [call EXCEPT ![c] =
                             [@ EXCEPT !.messages = st.messages, !.i = st.i,
                                       !.pc = st.pc,
                                       !.responses = Append(@, resp)]]
    /\ UNCHANGED outsideCalls

\* client.messages.create rejects for call c.
CallTurnFails(c) ==
    /\ call[c].pc = "loop"
    /\ call' = [call EXCEPT ![c] = [@ EXCEPT !.pc = PcAfterRejection,
                                             !.error = "upstream"]]
    /\ UNCHANGED <<maps, outsideCalls>>

\* After the loop: the result or the no-files error.
CallEnd(c) ==
    /\ call[c].pc = "after_loop"
    /\ LET list == ResultFiles(maps[call[c].map])
       IN  call' = [call EXCEPT ![c] =
                       IF NoFilesGenerated(list)
                       THEN [@ EXCEPT !.pc = "thrown", !.error = "no_files"]
                       ELSE [@ EXCEPT !.pc = "returned", !.files = list]]
    /\ UNCHANGED <<maps, outsideCalls>>

ConcNext ==
    \E c \in Calls :
        \/ CallStart(c)
        \/ CallTurn(c)
        \/ CallTurnFails(c)
        \/ CallEnd(c)

ConcSpec == ConcInit /\ [][ConcNext]_vars

\* The paths a call was given or was told to write.
OwnPaths(c) ==
    MapKeys(call[c].existingFiles)
        \cup UNION {{call[c].responses[n][k].input.path :
                        k \in {k \in 1..Len(call[c].responses[n]) :
                                  call[c].responses[n][k].type = "tool_use"}} :
                    n \in 1..Len(call[c].responses)}

\* C18: two createApp calls in flight share no mutable state: whatever the
\* interleaving, the conversation, the Map and the result of each are those of
\* the call run by itself on its own arguments and responses, and its result
\* names no path that only the other call wrote.
C18_CallsIndependent ==
    \A c \in Calls :
        call[c].pc # "start"
            => LET alone == RunAlone(StartOf(call[c].existingFiles), call[c].responses)
               IN  /\ call[c].messages = alone.messages
                   /\ call[c].i = alone.i
                   /\ maps[call[c].map] = alone.map
                   /\ call[c].pc = "returned"
                         => /\ call[c].files = ResultFiles(alone.map)
                            /\ MapKeys(call[c].files) \subseteq OwnPaths(c)

\* Both calls were between two round trips at once, one having written
\* a.html, the other b.css, and both returned.
C18_Witness ==
    /\ call[1].pc = "returned"
    /\ call[2].pc = "returned"
    /\ call[1].responses = <<<<WriteBlock("a.html", "X")>>, FinalAnswer>>
    /\ call[2].responses = <<<<WriteBlock("b.css", "X")>>, FinalAnswer>>
    /\ MapKeys(call[1].files) = {"a.html"}
    /\ "a.html" \notin MapKeys(call[2].files)

\* ------------------------------------------------------------------------
\* processMessageContent, validateImageSize, compressImage
\* (src/src/agent/createApp.ts, lines 302-424)
\* ------------------------------------------------------------------------

\* Items of a content array, at most.
MaxItems == 2

\* maxSizeMB: number = 5
MaxSizeMB == 5

\* let quality = 80
StartQuality == 80

\* quality -= 10
QualityStep == 10

\* quality > 10
MinQuality == 10

\* const maxSizeBytes = maxSizeMB * 1024 * 1024
MaxSizeBytes(maxSizeMB) == maxSizeMB * 1024 * 1024

\* return buffer.length <= maxSizeBytes
ValidateImageSizeStrict(length, maxSizeMB) == length < MaxSizeBytes(maxSizeMB)

ValidateImageSize(length, maxSizeMB) == length <= MaxSizeBytes(maxSizeMB)

\* A base64 text, by its number of characters and of trailing '=' signs.
\* Buffer.from(data, 'base64').length
DecodedLength(data) == (data.chars \div 4) * 3 - data.pad

\* buffer.toString('base64'), for a buffer of the given length
ToBase64(length) ==
    [chars |-> 4 * ((length + 2) \div 3), pad |-> (3 - (length % 3)) % 3]

\* Base64 texts of 3, 5242879, 5242880, 5242881 and 6000000 bytes.
ImageData ==
    { [chars |-> 4, pad |-> 0],
      [chars |-> 6990508, pad |-> 2],
      [chars |-> 6990508, pad |-> 1],
      [chars |-> 6990508, pad |-> 0],
      [chars |-> 8000000, pad |-> 0] }

ImageItem(data) == [type |-> "image", source |-> [type |-> "base64", data |-> data]]

\* Content items: text, base64 images, an image given by URL, and a base64
\* image whose data is undefined (file.data.split(',')[1] of a text without
\* comma).
ContentItems ==
    {[type |-> "text"]}
        \cup {ImageItem(d) : d \in ImageData}
        \cup {[type |-> "image", source |-> [type |-> "url"]],
              [type |-> "image", source |-> [type |-> "base64"]]}

\* Lengths of the buffer the JPEG encoder returns.
EncodedLengths == {1000, MaxSizeBytes(MaxSizeMB), MaxSizeBytes(MaxSizeMB) + 1}

\* item.type === 'image' && item.source?.type === 'base64'
IsBase64Image(it) ==
    it.type = "image" /\ "source" \in DOMAIN it /\ it.source.type = "base64"

HasData(it) == "data" \in DOMAIN it.source

ImageInit ==
    /\ NoCreateApp
    /\ NoDims
    /\ NoUploads
    /\ NoUsers
    /\ NoServer
    /\ NoCalls
    /\ imgPc = "loop"
    /\ messageContent \in UNION {[1..n -> ContentItems] : n \in 0..MaxItems}
    /\ item = 1
    /\ processedContent = <<>>
    /\ origin = <<>>
    /\ quality = 0
    /\ compressedLength = 0
    /\ invoked = {}
    /\ encodings = <<>>

\* processedContent.push(x) and the next turn of the for loop.
Push(x) ==
    /\ processedContent' = Append(processedContent, x)
    /\ origin' = Append(origin, item)
    /\ item' = item + 1
    /\ imgPc' = "loop"

\* The catch block passes the error on.
PcAfterImageErrorRethrown == "threw"

\* catch (error) { ...; continue }
PcAfterImageError == "loop"

\* The catch block of processMessageContent: the item is left out.
SkipItem ==
    /\ item' = item + 1
    /\ imgPc' = PcAfterImageError
    /\ UNCHANGED <<processedContent, origin>>

AtItem == imgPc = "loop" /\ item <= Len(messageContent)

\* An item that is no base64 image goes through.
PushOther ==
    /\ AtItem
    /\ ~IsBase64Image(messageContent[item])
    /\ Push(messageContent[item])
    /\ UNCHANGED <<messageContent, quality, compressedLength, invoked, encodings>>
    /\ UNCHANGED outsideImage

\* Buffer.from(undefined, 'base64') throws.
SkipUndecodable ==
    /\ AtItem
    /\ IsBase64Image(messageContent[item])
    /\ ~HasData(messageContent[item])
    /\ SkipItem
    /\ UNCHANGED <<messageContent, quality, compressedLength, invoked, encodings>>
    /\ UNCHANGED outsideImage

\* An image within the limit goes through.
PushImage ==
    /\ AtItem
    /\ IsBase64Image(messageContent[item])
    /\ HasData(messageContent[item])
    /\ ValidateImageSize(DecodedLength(messageContent[item].source.data), MaxSizeMB)
    /\ Push(messageContent[item])
    /\ UNCHANGED <<messageContent, quality, compressedLength, invoked, encodings>>
    /\ UNCHANGED outsideImage

\* An image over the limit: compressImage is called, up to its first await.
CompressCall ==
    /\ AtItem
    /\ IsBase64Image(messageContent[item])
    /\ HasData(messageContent[item])
    /\ ~ValidateImageSize(DecodedLength(messageContent[item].source.data), MaxSizeMB)
    /\ invoked' = invoked \cup {item}
    /\ encodings' = <<>>
    /\ imgPc' = "metadata"
    /\ UNCHANGED <<messageContent, item, processedContent, origin, quality,
                   compressedLength>>
    /\ UNCHANGED outsideImage

\* sharp(imageBuffer).metadata() resolves: the first encoding is requested,
\* at quality 80.
CompressMetadata ==
    /\ imgPc = "metadata"
    /\ quality' = StartQuality
    /\ encodings' = Append(encodings, quality')
    /\ imgPc' = "encode"
    /\ UNCHANGED <<messageContent, item, processedContent, origin,
                   compressedLength, invoked>>
    /\ UNCHANGED outsideImage

\* toBuffer() resolves with a buffer of some length.
CompressEncode ==
    /\ imgPc = "encode"
    /\ compressedLength' \in EncodedLengths
    /\ imgPc' = "check"
    /\ UNCHANGED <<messageContent, item, processedContent, origin, quality, invoked,
                   encodings>>
    /\ UNCHANGED outsideImage

\* The loop goes on at the floor quality too.
CompressAgainAtFloor ==
    compressedLength > MaxSizeBytes(MaxSizeMB) /\ quality >= MinQuality

\* while (compressedBuffer.length > maxSizeBytes && quality > 10)
CompressAgain ==
    compressedLength > MaxSizeBytes(MaxSizeMB) /\ quality > MinQuality

\* The check after the loop lets one byte more through.
StillTooLargeLenient(length, maxSizeMB) == length > MaxSizeBytes(maxSizeMB) + 1

\* if (compressedBuffer.length > maxSizeBytes) throw
StillTooLarge(length, maxSizeMB) == length > MaxSizeBytes(maxSizeMB)

CompressRetry ==
    /\ imgPc = "check"
    /\ CompressAgain
    /\ quality' = quality - QualityStep
    /\ encodings' = Append(encodings, quality')
    /\ imgPc' = "encode"
    /\ UNCHANGED <<messageContent, item, processedContent, origin,
                   compressedLength, invoked>>
    /\ UNCHANGED outsideImage

\* compressImage returns: the item goes on with the new data.
CompressReturn ==
    /\ imgPc = "check"
    /\ ~CompressAgain
    /\ ~StillTooLarge(compressedLength, MaxSizeMB)
    /\ Push([messageContent[item] EXCEPT !.source.data = ToBase64(compressedLength)])
    /\ UNCHANGED <<messageContent, quality, compressedLength, invoked, encodings>>
    /\ UNCHANGED outsideImage

\* Still over the limit at the lowest quality: compressImage throws.
CompressTooLarge ==
    /\ imgPc = "check"
    /\ ~CompressAgain
    /\ StillTooLarge(compressedLength, MaxSizeMB)
    /\ SkipItem
    /\ UNCHANGED <<messageContent, quality, compressedLength, invoked, encodings>>
    /\ UNCHANGED outsideImage

\* sharp rejects: compressImage throws 'Failed to compress image'.
CompressFails ==
    /\ imgPc \in {"metadata", "encode"}
    /\ SkipItem
    /\ UNCHANGED <<messageContent, quality, compressedLength, invoked, encodings>>
    /\ UNCHANGED outsideImage

\* return processedContent
ProcessReturn ==
    /\ imgPc = "loop"
    /\ item > Len(messageContent)
    /\ imgPc' = "done"
    /\ UNCHANGED <<messageContent, item, processedContent, origin, quality,
                   compressedLength, invoked, encodings>>
    /\ UNCHANGED outsideImage

ImageNext ==
    \/ PushOther
    \/ SkipUndecodable
    \/ PushImage
    \/ CompressCall
    \/ CompressMetadata
    \/ CompressEncode
    \/ CompressRetry
    \/ CompressReturn
    \/ CompressTooLarge
    \/ CompressFails
    \/ ProcessReturn

ImageSpec == ImageInit /\ [][ImageNext]_vars

\* Every promise of sharp settles, and the for loop goes on.
FairImageSpec == ImageSpec /\ WF_vars(ImageNext)

\* The for loop has been at item n.
Reached(n) == n <= item /\ (n = item => imgPc # "loop")

\* C20: a base64 image of at most 5 * 1024 * 1024 bytes, that length
\* included, is never given to compressImage and is in the processed content
\* as it was; compressImage is called for an image exactly when its length is
\* above that.
C20_SizeGate ==
    /\ \A n \in 1..Len(messageContent) :
          (IsBase64Image(messageContent[n]) /\ HasData(messageContent[n]))
              => LET length == DecodedLength(messageContent[n].source.data)
                 IN  /\ (n \in invoked) <=> (Reached(n) /\ length > 5 * 1024 * 1024)
                     /\ (n < item /\ length <= 5 * 1024 * 1024)
                           => \E m \in 1..Len(origin) :
                                 /\ origin[m] = n
                                 /\ processedContent[m] = messageContent[n]
    /\ \A n \in invoked :
          IsBase64Image(messageContent[n]) /\ HasData(messageContent[n])

\* An image of exactly 5 * 1024 * 1024 bytes went through unchanged, and one
\* of a byte more was given to compressImage.
C20_Witness ==
    /\ imgPc = "done"
    /\ Len(messageContent) = 2
    /\ messageContent[1] = ImageItem([chars |-> 6990508, pad |-> 1])
    /\ messageContent[2] = ImageItem([chars |-> 6990508, pad |-> 0])
    /\ DecodedLength(messageContent[1].source.data) = 5242880
    /\ invoked = {2}
    /\ processedContent[1] = messageContent[1]
    /\ Len(processedContent) = 2

\* The lengths of the buffers compressImage may return.
WithinLimit(length) == length <= 5 * 1024 * 1024

\* compressImage has returned a buffer in this step: the item went on.
Returned == imgPc = "check" /\ Len(processedContent') = Len(processedContent) + 1

\* compressImage has thrown in this step: the for loop took the next item
\* without a push.
Thrown ==
    /\ imgPc \in {"metadata", "encode", "check"}
    /\ item' = item + 1
    /\ processedContent' = processedContent

\* C21: a call of compressImage ends with a returned buffer of at most
\* maxBytes bytes or with the compression error; it ends with the error when
\* the encoding at the floor quality 10 is still above maxBytes; a returned
\* buffer is never larger than maxBytes.
C21_CompressedWithinLimit ==
    [][/\ (imgPc = "check" /\ item' # item) => (Returned \/ Thrown)
       /\ Returned =>
             LET out == processedContent'[Len(processedContent')]
             IN  /\ WithinLimit(compressedLength)
                 /\ WithinLimit(DecodedLength(out.source.data))
                 /\ DecodedLength(out.source.data) = compressedLength
       /\ (imgPc = "check" /\ quality = 10 /\ ~WithinLimit(compressedLength))
             => Thrown]_vars

\* compressImage has thrown for the first item, whose encoding at quality 10
\* was above the limit, and has returned a buffer of exactly the limit for
\* the second.
C21_Witness ==
    /\ imgPc = "done"
    /\ invoked = {1, 2}
    /\ origin = <<2>>
    /\ DecodedLength(processedContent[1].source.data) = 5 * 1024 * 1024
    /\ processedContent[1] # messageContent[2]

\* The qualities of a compressImage call, in the order it uses them.
QualityLadder == <<80, 70, 60, 50, 40, 30, 20, 10>>

InCompressImage == imgPc \in {"metadata", "encode", "check"}

\* C27: a call of compressImage ends; its encodings are at quality 80, 70,
\* 60, ... in steps of 10, it asks for no encoding after the first one of at
\* most maxBytes bytes, none below quality 10, and at most 8 in all.
C27_CompressTerminates ==
    /\ InCompressImage ~> ~InCompressImage
    /\ [](/\ Len(encodings) <= 8
          /\ \A k \in 1..Len(encodings) :
                encodings[k] = QualityLadder[k] /\ encodings[k] >= 10)
    /\ [][(imgPc = "check" /\ WithinLimit(compressedLength))
             => (encodings' = encodings /\ ~InCompressImage')]_vars

\* A call of compressImage has ended after eight encodings.
C27_Witness ==
    /\ imgPc = "loop"
    /\ item = 2
    /\ invoked = {1}
    /\ encodings = QualityLadder
    /\ quality = 10

\* ------------------------------------------------------------------------
\* compressImage: the target dimensions (createApp.ts, lines 309-325)
\* ------------------------------------------------------------------------

\* const maxDimension = 1024
MaxDimension == 1024

\* Math.round(x / y) for x >= 0 and y > 0: the nearest integer, halves up.
Round(x, y) == (2 * x + y) \div (2 * y)

\* The shorter side is scaled by the inverse ratio.
ScaledInverse(side, longer) == Round(longer * MaxDimension, side)

\* Math.round((side * maxDimension) / longer)
Scaled(side, longer) == Round(side * MaxDimension, longer)

\* Widths and heights sharp may report; 0 stands for undefined.
Dimensions == {0, 1, 2, 3, 683, 1023, 1024, 1025, 1536, 2047, 2048, 2049, 4096, 5000}

DimInit ==
    /\ NoCreateApp
    /\ NoUploads
    /\ NoUsers
    /\ NoServer
    /\ NoCalls
    /\ NoImages
    /\ dimPc = "start"
    /\ metadata \in [width : Dimensions, height : Dimensions]
    /\ width = metadata.width
    /\ height = metadata.height

\* if (width && height)
BothKnown == width # 0 /\ height # 0

\* width > height and width > maxDimension
DimWide ==
    /\ dimPc = "start"
    /\ BothKnown /\ width > height /\ width > MaxDimension
    /\ height' = Scaled(height, width)
    /\ width' = MaxDimension
    /\ dimPc' = "done"
    /\ UNCHANGED metadata
    /\ UNCHANGED outsideDims

\* width <= height and height > maxDimension
DimTall ==
    /\ dimPc = "start"
    /\ BothKnown /\ ~(width > height) /\ height > MaxDimension
    /\ width' = Scaled(width, height)
    /\ height' = MaxDimension
    /\ dimPc' = "done"
    /\ UNCHANGED metadata
    /\ UNCHANGED outsideDims

\* Neither assignment is reached.
DimKeep ==
    /\ dimPc = "start"
    /\ ~(BothKnown /\ width > height /\ width > MaxDimension)
    /\ ~(BothKnown /\ ~(width > height) /\ height > MaxDimension)
    /\ dimPc' = "done"
    /\ UNCHANGED <<metadata, width, height>>
    /\ UNCHANGED outsideDims

DimNext == DimWide \/ DimTall \/ DimKeep

DimSpec == DimInit /\ [][DimNext]_vars

\* C22: for positive input width and height, the target width and height
\* are each at most the input's, the longer target side is at most 1024,
\* and an input with both sides at most 1024 keeps its dimensions.
C22_NeverUpscales ==
    (dimPc = "done" /\ metadata.width > 0 /\ metadata.height > 0)
        => /\ width <= metadata.width
           /\ height <= metadata.height
           /\ width <= 1024 /\ height <= 1024
           /\ (metadata.width <= 1024 /\ metadata.height <= 1024)
                 => (width = metadata.width /\ height = metadata.height)

\* A 4096 x 1536 image has been brought to 1024 x 384.
C22_Witness ==
    /\ dimPc = "done"
    /\ metadata = [width |-> 4096, height |-> 1536]
    /\ width = 1024
    /\ height = 384

\* ------------------------------------------------------------------------
\* createApp: from its entry to the agentic loop, with uploaded files
\* (createApp.ts, lines 426-590)
\* ------------------------------------------------------------------------

MaxFiles == 2

\* file.data is a data URL; it is given here as the result of split(','):
\* the header and the base64 text, or one part when there is no comma.
UploadedFileKinds ==
    { [name |-> "small.png", type |-> [major |-> "image", sub |-> "png"],
       data |-> <<"data:image/png;base64", [chars |-> 4, pad |-> 0]>>, url |-> ""],
      [name |-> "big.jpg", type |-> [major |-> "image", sub |-> "jpeg"],
       data |-> <<"data:image/jpeg;base64", [chars |-> 6990508, pad |-> 0]>>,
       url |-> "https://cdn/big.jpg"],
      [name |-> "raw.gif", type |-> [major |-> "image", sub |-> "gif"],
       data |-> <<"R0lGODlh">>, url |-> ""],
      [name |-> "pic.webp", type |-> [major |-> "image", sub |-> "webp"],
       data |-> <<"data:image/webp;base64", [chars |-> 4, pad |-> 0]>>,
       url |-> "https://cdn/pic.webp"],
      [name |-> "notes.txt", type |-> [major |-> "text", sub |-> "plain"],
       data |-> <<"data:text/plain;base64", [chars |-> 4, pad |-> 0]>>, url |-> ""] }

\* file.type.startsWith('image/')
IsImageFile(file) == file.type.major = "image"

\* if (file.url)
HasUrl(file) == file.url # ""

\* mediaType: 'image/jpeg' unless the type includes png, gif or webp
MediaType(type) ==
    IF type.sub \in {"png", "gif", "webp"} THEN <<"image", type.sub>>
    ELSE <<"image", "jpeg">>

\* The image block of a file; base64Data = file.data.split(',')[1] is
\* undefined when the data holds no comma.
ImageBlock(file) ==
    [type |-> "image",
     source |-> IF Len(file.data) >= 2
                THEN [type |-> "base64", media_type |-> MediaType(file.type),
                      data |-> file.data[2]]
                ELSE [type |-> "base64", media_type |-> MediaType(file.type)]]

\* { type: 'text', text: userMessage }; the texts appended to it later are
\* kept apart.
TextBlock(list) ==
    IF IsUpdate(list)
    THEN [type |-> "text", text |-> "prompt", filesContext |-> list, appended |-> <<>>]
    ELSE [type |-> "text", text |-> "prompt", appended |-> <<>>]

\* messageContent[0].text += ...
AppendText(blocks, t) == [blocks EXCEPT ![1].appended = Append(@, t)]

\* An image that has a URL is given by its URL alone.
AddFileUrlAlone(acc, file) ==
    IF IsImageFile(file)
    THEN IF HasUrl(file)
         THEN [acc EXCEPT !.imageUrls = Append(@, file.url)]
         ELSE [acc EXCEPT !.messageContent = Append(@, ImageBlock(file))]
    ELSE [acc EXCEPT !.messageContent =
                        AppendText(@, [kind |-> "file", name |-> file.name])]

\* One turn of `for (const file of uploadedFiles)`.
AddFile(acc, file) ==
    IF IsImageFile(file)
    THEN IF HasUrl(file)
         THEN [messageContent |-> Append(acc.messageContent, ImageBlock(file)),
               imageUrls |-> Append(acc.imageUrls, file.url)]
         ELSE [acc EXCEPT !.messageContent = Append(@, ImageBlock(file))]
    ELSE [acc EXCEPT !.messageContent =
                        AppendText(@, [kind |-> "file", name |-> file.name])]

RECURSIVE AddFiles(_, _)
AddFiles(acc, list) ==
    IF list = <<>> THEN acc
    ELSE AddFiles(AddFile(acc, Head(list)), Tail(list))

\* The content array as it is given to processMessageContent.
BuildMessageContent(existing, uploaded) ==
    LET acc == AddFiles([messageContent |-> <<TextBlock(existing)>>,
                         imageUrls |-> <<>>], uploaded)
    IN  IF Len(acc.imageUrls) > 0
        THEN AppendText(acc.messageContent,
                        [kind |-> "urls", urls |-> acc.imageUrls])
        ELSE acc.messageContent

PipelineInit ==
    /\ NoServer
    /\ NoCalls
    /\ NoImages
    /\ NoDims
    /\ NoUsers
    /\ pc = "start"
    /\ apiKey = TRUE
    /\ existingFiles \in {e \in ExistingFileLists : Len(e) <= 1}
    /\ uploadedFiles \in UNION {[1..n -> UploadedFileKinds] : n \in 0..MaxFiles}
    /\ generatedFiles = <<>>
    /\ messages = <<>>
    /\ i = 0
    /\ calls = 0
    /\ toolLog = <<>>
    /\ files = <<>>
    /\ error = "none"
    /\ stubBudget = 0
    /\ stubLast = <<>>

\* From the entry of createApp to `await processMessageContent(messageContent)`.
BuildMessage ==
    /\ pc = "start"
    /\ apiKey
    /\ generatedFiles' = SeedFiles(<<>>, existingFiles)
    /\ messageContent' = BuildMessageContent(existingFiles, uploadedFiles)
    /\ item' = 1
    /\ imgPc' = "loop"
    /\ pc' = "processing"
    /\ UNCHANGED <<apiKey, existingFiles, messages, i, calls, toolLog, files, error,
                   stubBudget, stubLast>>
    /\ UNCHANGED <<processedContent, origin, quality, compressedLength, invoked,
                   encodings>>
    /\ UNCHANGED <<serverVars, concVars, dimVars, uploadVars, userVars, registerVars>>

\* processMessageContent has returned: the first turn is made of its result
\* and the loop is entered.
EnterLoop ==
    /\ pc = "processing"
    /\ imgPc = "done"
    /\ messages' = <<[role |-> "user", content |-> processedContent]>>
    /\ i' = 0
    /\ pc' = IF LoopCond(0) THEN "loop" ELSE "after_loop"
    /\ UNCHANGED <<apiKey, existingFiles, generatedFiles, calls, toolLog, files,
                   error, stubBudget, stubLast>>
    /\ UNCHANGED outsideCreateApp

PipelineNext == BuildMessage \/ ImageNext \/ EnterLoop

PipelineSpec == PipelineInit /\ [][PipelineNext]_vars

\* Every promise of sharp settles, and createApp goes on after its await.
FairPipelineSpec == PipelineSpec /\ WF_vars(PipelineNext)

\* The image attachments and the other attachments, in attachment order.
ImageAttachments == SelectSeq(uploadedFiles, LAMBDA f : f.type.major = "image")

OtherAttachments == SelectSeq(uploadedFiles, LAMBDA f : f.type.major # "image")

\* The file-name references in the text block, in order.
FileReferences(block) == SelectSeq(block.appended, LAMBDA t : t.kind = "file")

\* C28: the message built for the LLM has one text block, the first, holding
\* the prompt, followed by one image block per image attachment, in
\* attachment order, whether the attachment has a remote URL or not; an
\* attachment that is no image adds no block, only a reference by file name
\* in the text block.
C28_MessageShape ==
    pc # "start" =>
        /\ Len(messageContent) = 1 + Len(ImageAttachments)
        /\ messageContent[1].type = "text"
        /\ messageContent[1].text = "prompt"
        /\ \A k \in 1..Len(ImageAttachments) :
              LET block == messageContent[k + 1]
                  file == ImageAttachments[k]
              IN  /\ block.type = "image"
                  /\ block.source.type = "base64"
                  /\ block.source.media_type[2] \in {file.type.sub, "jpeg"}
                  /\ IF Len(file.data) >= 2
                     THEN block.source.data = file.data[2]
                     ELSE "data" \notin DOMAIN block.source
        /\ Len(FileReferences(messageContent[1])) = Len(OtherAttachments)
        /\ \A k \in 1..Len(OtherAttachments) :
              FileReferences(messageContent[1])[k].name = OtherAttachments[k].name

\* A message was built from an image with a remote URL followed by a text
\* file: one text block with the reference, one image block.
C28_Witness ==
    /\ pc = "processing"
    /\ Len(uploadedFiles) = 2
    /\ uploadedFiles[1].name = "pic.webp"
    /\ uploadedFiles[2].name = "notes.txt"
    /\ Len(messageContent) = 2
    /\ messageContent[2].source.media_type = <<"image", "webp">>
    /\ FileReferences(messageContent[1]) = <<[kind |-> "file", name |-> "notes.txt"]>>

\* The items the for loop has left behind without a push.
Dropped == {n \in 1..Len(messageContent) : n < item /\ \A m \in 1..Len(origin) : origin[m] # n}

\* Entry m of the processed content is its item, with new data if
\* compressImage was called for it.
KeptAsGiven(m) ==
    LET n == origin[m]
    IN  IF n \in invoked
        THEN /\ processedContent[m].type = messageContent[n].type
             /\ processedContent[m].source.type = messageContent[n].source.type
             /\ processedContent[m].source.media_type = messageContent[n].source.media_type
        ELSE processedContent[m] = messageContent[n]

HoldsInvocations(turn) ==
    \E k \in 1..Len(turn.content) : turn.content[k].type = "tool_use"

\* The turn is made of tool results only.
IsToolResultTurn(turn) ==
    /\ turn.role = "user"
    /\ Len(turn.content) > 0
    /\ \A k \in 1..Len(turn.content) : turn.content[k].type = "tool_result"

\* C26: whenever the LLM is called, the conversation starts with the initial
\* user turn, ends with a user turn and alternates user and assistant turns;
\* each assistant turn holding tool invocations is followed by one turn of
\* tool results before the next call; turns once appended are neither
\* changed nor removed.
C26_ConversationAlternates ==
    /\ [](pc = "loop" =>
            /\ Len(messages) >= 1
            /\ messages[1] = [role |-> "user", content |-> <<UserMessage(existingFiles)>>]
            /\ messages[Len(messages)].role = "user"
            /\ \A k \in 1..Len(messages) :
                  messages[k].role = IF k % 2 = 1 THEN "user" ELSE "assistant"
            /\ \A k \in 1..Len(messages) :
                  (messages[k].role = "assistant" /\ HoldsInvocations(messages[k]))
                      => /\ k < Len(messages)
                         /\ IsToolResultTurn(messages[k + 1]))
    /\ [][/\ Len(messages') >= Len(messages)
          /\ \A k \in 1..Len(messages) : messages'[k] = messages[k]]_vars

\* ------------------------------------------------------------------------
\* The iterate handler when createApp throws (part_002, lines 1057-1106)
\* ------------------------------------------------------------------------

\* createApp has thrown in this step of the iterate request in slot r.
IterateThrows(r) ==
    /\ req[r].kind = "iterate"
    /\ req[r].pc = "i_createApp"
    /\ req'[r].threw

\* C29: when createApp throws in an iterate request, upstream failure and
\* 'no files' alike, the project in the Map and its record on disk stay as
\* they are, the request is answered with an error and does nothing more,
\* and the array given to createApp as existing files is as it was.
C29_FailedIterateChangesNothing ==
    [][\A r \in Requests :
          /\ IterateThrows(r)
                => /\ heap' = heap
                   /\ projects' = projects
                   /\ disk' = disk
                   /\ req'[r].arg = req[r].arg
                   /\ heap'[req[r].obj].files = heap[req[r].obj].files
                   /\ heap'[req[r].obj].prompt = heap[req[r].obj].prompt
                   /\ req'[r].pc = "done"
                   /\ req'[r].status \notin {0, 200}
          /\ (req[r].kind = "iterate" /\ req[r].threw /\ req'[r] # req[r])
                => FALSE]_vars

\* An iterate request has failed with the project as it was stored.
C29_Witness ==
    \E r \in Requests :
        /\ req[r].kind = "iterate"
        /\ req[r].threw
        /\ req[r].pc = "done"
        /\ req[r].status = 500
        /\ "llm" \in {req[r].events[k] : k \in 1..Len(req[r].events)}
        /\ heap[req[r].obj] = StoredProject
        /\ disk[req[r].id] = <<StoredProject>>

\* ------------------------------------------------------------------------
\* The project routes: list, get, rename, delete, iterate
\* (part_002, lines 666-730 and 1002-1107)
\* ------------------------------------------------------------------------

\* The users of the storage: two students and an admin.
Accounts == Users \cup {"root"}

\* userStorage.findById(id): <<>> for undefined
FindById(id) ==
    IF id \in DOMAIN users /\ users[id] # "absent"
    THEN <<[id |-> id, role |-> users[id]]>>
    ELSE <<>>

\* A user that is not found passes too.
IsAdminOrUnknown(found) == found = <<>> \/ found[1].role = "admin"

\* user && user.role === 'admin'
IsAdmin(found) == found # <<>> /\ found[1].role = "admin"

\* A second project on disk at startup, of another user.
OtherId == FreshId(MaxRequests)

OtherRef == ErrorRef(MaxRequests)

OtherProject ==
    [id |-> OtherId, name |-> GenerateProjectName(0), prompt |-> <<0>>,
     promptHistory |-> <<0>>,
     files |-> <<[path |-> "b.css", content |-> "OLD"]>>,
     createdAt |-> 0, userId |-> "u2"]

\* The ids a client names: a project there is and one there is not.
RouteIds == {KnownId, FreshId(1)}

\* Every project is taken for the requester's.
OwnedByAnyone(project, userId) == TRUE

\* project.userId === userId
OwnedBy(project, userId) == project.userId = userId

\* The ids of the Map in the order of its entries.
RECURSIVE MapOrder(_)
MapOrder(n) ==
    IF n = 0 THEN <<>>
    ELSE LET id == KnownId + n - 1
         IN  IF projects[id] = 0 THEN MapOrder(n - 1)
             ELSE Append(MapOrder(n - 1), id)

\* { id, name, prompt, createdAt }
ProjectSummary(p) ==
    [id |-> p.id, name |-> p.name, prompt |-> p.prompt, createdAt |-> p.createdAt]

\* Array.from(projects.values()).filter(p => p.userId === userId).map(...)
UserProjects(userId) ==
    LET all == MapOrder(Cardinality(ProjectIds))
        own == SelectSeq(all, LAMBDA id : OwnedBy(heap[projects[id]], userId))
    IN  [k \in 1..Len(own) |-> ProjectSummary(heap[projects[own[k]]])]

RoutesInit ==
    /\ NoCreateApp
    /\ NoCalls
    /\ NoImages
    /\ NoDims
    /\ NoUploads
    /\ envKey = "valid"
    /\ users = [a \in Accounts |-> IF a = "root" THEN "admin" ELSE "student"]
    /\ NoRegistrations
    /\ heap = [ref \in HeapRefs |->
                  IF ref = StoredRef THEN StoredProject
                  ELSE IF ref = OtherRef THEN OtherProject ELSE Unallocated]
    /\ projects = [id \in ProjectIds |->
                      IF id = KnownId THEN StoredRef
                      ELSE IF id = OtherId THEN OtherRef ELSE 0]
    /\ disk = [id \in ProjectIds |->
                  IF id = KnownId THEN <<StoredProject>>
                  ELSE IF id = OtherId THEN <<OtherProject>> ELSE <<>>]
    /\ req = [r \in Requests |-> IdleRequest]
    /\ lastWriter = [ref \in HeapRefs |-> 0]

\* GET /api/projects: the whole handler.
ListProjects(r) ==
    /\ CanArrive(r)
    /\ \E u \in Accounts :
          LET q == [req[r] EXCEPT !.kind = "list", !.user = u]
          IN  req' = [req EXCEPT ![r] =
                         Done(Respond([q EXCEPT !.result = UserProjects(u)], 200))]
    /\ UNCHANGED <<envKey, projects, heap, disk, lastWriter, outsideServer>>

\* GET /api/projects/:id: the whole handler.
GetProject(r) ==
    /\ CanArrive(r)
    /\ \E u \in Accounts, pid \in RouteIds :
          LET q == [req[r] EXCEPT !.kind = "get", !.user = u, !.id = pid]
              project == projects[pid]
          IN  req' = [req EXCEPT ![r] =
                  IF project = 0
                  THEN Done(Respond(q, 404))
                  ELSE IF ~OwnedBy(heap[project], u)
                  THEN Done(Respond(q, 403))
                  ELSE Done(Respond([q EXCEPT !.result = <<heap[project]>>], 200))]
    /\ UNCHANGED <<envKey, projects, heap, disk, lastWriter, outsideServer>>

\* PATCH /api/projects/:id/rename, up to `await fs.writeFile(...)`: the name
\* of the request in slot r is <<"renamed", r>>.
RenameArrive(r) ==
    /\ CanArrive(r)
    /\ \E u \in Accounts, pid \in RouteIds :
          LET q == [req[r] EXCEPT !.kind = "rename", !.user = u, !.id = pid]
              project == projects[pid]
          IN  IF project = 0
              THEN /\ req' = [req EXCEPT ![r] = Done(Respond(q, 404))]
                   /\ UNCHANGED heap
              ELSE IF ~OwnedBy(heap[project], u)
              THEN /\ req' = [req EXCEPT ![r] = Done(Respond(q, 403))]
                   /\ UNCHANGED heap
              ELSE /\ heap' = [heap EXCEPT ![project].name = <<"renamed", r>>]
                   /\ req' = [req EXCEPT ![r] =
                                 [q EXCEPT !.obj = project,
                                           !.local = <<heap'[project]>>,
                                           !.pc = "r_write"]]
    /\ UNCHANGED <<envKey, projects, disk, lastWriter, outsideServer>>

\* The renamed project is on disk: 200 with its id and name.
RenameWritten(r) ==
    /\ req[r].pc = "r_write"
    /\ disk' = [disk EXCEPT ![req[r].id] = req[r].local]
    /\ req' = [req EXCEPT ![r] =
                  Done(Respond([@ EXCEPT !.result =
                                   <<[id |-> heap[req[r].obj].id,
                                      name |-> heap[req[r].obj].name]>>],
                               200))]
    /\ UNCHANGED <<envKey, projects, heap, lastWriter, outsideServer>>

\* The write fails: the catch block answers 500.
RenameWriteFails(r) ==
    /\ req[r].pc = "r_write"
    /\ req' = [req EXCEPT ![r] = Done(Respond(@, 500))]
    /\ UNCHANGED <<envKey, projects, heap, disk, lastWriter, outsideServer>>

\* DELETE /api/projects/:id, up to `await fs.unlink(projectPath)`.
DeleteArrive(r) ==
    /\ CanArrive(r)
    /\ \E u \in Accounts, pid \in RouteIds :
          LET q == [req[r] EXCEPT !.kind = "delete", !.user = u, !.id = pid]
              project == projects[pid]
              user == FindById(u)
          IN  IF project = 0
              THEN /\ req' = [req EXCEPT ![r] = Done(Respond(q, 404))]
                   /\ UNCHANGED projects
              ELSE IF ~OwnedBy(heap[project], u) /\ ~IsAdmin(user)
              THEN /\ req' = [req EXCEPT ![r] = Done(Respond(q, 403))]
                   /\ UNCHANGED projects
              ELSE /\ projects' = [projects EXCEPT ![pid] = 0]
                   /\ req' = [req EXCEPT ![r] = [q EXCEPT !.obj = project,
                                                          !.pc = "d_unlink"]]
    /\ UNCHANGED <<envKey, heap, disk, lastWriter, outsideServer>>

\* The file is removed: { success: true }.
DeleteUnlinked(r) ==
    /\ req[r].pc = "d_unlink"
    /\ disk' = [disk EXCEPT ![req[r].id] = <<>>]
    /\ req' = [req EXCEPT ![r] = Done(Respond(@, 200))]
    /\ UNCHANGED <<envKey, projects, heap, lastWriter, outsideServer>>

\* fs.unlink rejects: .catch logs the error, and the handler answers
\* { success: true } all the same.
DeleteUnlinkFails(r) ==
    /\ req[r].pc = "d_unlink"
    /\ req' = [req EXCEPT ![r] =
                  Done(Respond([@ EXCEPT !.events = Append(@, "unlink_failed")], 200))]
    /\ UNCHANGED <<envKey, projects, heap, disk, lastWriter, outsideServer>>

RoutesNext ==
    \E r \in Requests :
        \/ ListProjects(r)
        \/ GetProject(r)
        \/ RenameArrive(r)
        \/ RenameWritten(r)
        \/ RenameWriteFails(r)
        \/ DeleteArrive(r)
        \/ DeleteUnlinked(r)
        \/ DeleteUnlinkFails(r)
        \/ IterateArrive(r)
        \/ IterateCreateAppDone(r)
        \/ IterateWritten(r)
        \/ IterateWriteFails(r)

RoutesSpec == RoutesInit /\ [][RoutesNext]_vars

\* The request in slot r arrives in this step.
Arrives(r) == req[r].pc = "idle" /\ req'[r].pc # "idle"

\* The request in slot r is answered in this step.
Answered(r) == req[r].responses = 0 /\ req'[r].responses = 1

\* The ids of the summaries of a list response.
ListedIds(q) == {q.result[k].id : k \in 1..Len(q.result)}

\* The ids of the projects of a user in the Map.
OwnIds(userId) ==
    {id \in ProjectIds : projects[id] # 0 /\ heap[projects[id]].userId = userId}

\* C24: for a project of another user, get, rename and iterate answer 403,
\* reveal nothing of the project and change nothing (iterate without an LLM
\* call); for an id that is not in the Map they answer 404; the list holds
\* the requester's projects and no others.
C24_OwnerOnly ==
    [][\A r \in Requests :
          LET q == req'[r]
          IN  /\ (Arrives(r) /\ q.kind \in {"get", "rename", "iterate"})
                    => /\ projects[q.id] = 0 => (q.status = 404 /\ q.pc = "done")
                       /\ (projects[q.id] # 0 /\ heap[projects[q.id]].userId # q.user)
                             => /\ q.status = 403
                                /\ q.pc = "done"
                                /\ q.result = <<>>
                                /\ \A k \in 1..Len(q.events) : q.events[k] # "llm"
                                /\ heap' = heap
                                /\ projects' = projects
                                /\ disk' = disk
              /\ (Arrives(r) /\ q.kind = "list")
                    => /\ q.status = 200
                       /\ ListedIds(q) = OwnIds(q.user)
                       /\ Len(q.result) = Cardinality(OwnIds(q.user))
              /\ req[r].pc = "done" => q = req[r]]_vars

\* Another user's iterate and the admin's get of the stored project were
\* answered 403, and the project is as it was.
C24_Witness ==
    /\ req[1].kind = "iterate" /\ req[1].user = "u2" /\ req[1].status = 403
    /\ req[2].kind = "get" /\ req[2].user = "root" /\ req[2].status = 403
    /\ req[1].id = KnownId /\ req[2].id = KnownId
    /\ heap[StoredRef] = StoredProject
    /\ disk[KnownId] = <<StoredProject>>

\* C30: a delete succeeds only for the project's owner or an admin; for any
\* other user it is answered 403 and the project stays in the Map and on
\* disk; when it succeeds the project is out of the Map and its file is
\* gone.
C30_DeleteOwnerOrAdmin ==
    [][\A r \in Requests :
          LET q == req'[r]
          IN  /\ (Arrives(r) /\ q.kind = "delete" /\ projects[q.id] # 0)
                    => IF \/ heap[projects[q.id]].userId = q.user
                          \/ users[q.user] = "admin"
                       THEN projects'[q.id] = 0 /\ q.status \in {0, 200}
                       ELSE /\ q.status = 403
                            /\ q.pc = "done"
                            /\ projects' = projects
                            /\ disk' = disk
                            /\ heap' = heap
              /\ (Answered(r) /\ q.kind = "delete" /\ q.status = 200)
                    => /\ projects'[q.id] = 0
                       /\ disk'[q.id] = <<>>]_vars

\* ------------------------------------------------------------------------
\* The admin routes behind authMiddleware and adminMiddleware
\* (authMiddleware.ts, lines 10-24; part_002, lines 577-663)
\* ------------------------------------------------------------------------

\* A user id that is registered later; until then a token may still name it.
LaterAccount == "u3"

\* What a request may carry as its token: nothing, a token that jwt.verify
\* rejects (wrong signature or expired), or a token signed for a user id.
Tokens ==
    {NoToken, [sig |-> "bad", userId |-> "root"]}
        \cup {[sig |-> "good", userId |-> u] : u \in {"u1", "root", LaterAccount}}

AdminRoutes == {"users", "projects", "project", "stats"}

\* authMiddleware: 401 without a token or with one that jwt.verify rejects,
\* else req.userId = decoded.userId and next().
AuthMiddleware(q) ==
    IF q.token = NoToken THEN Done(Respond(q, 401))
    ELSE IF q.token.sig # "good" THEN Done(Respond(q, 401))
    ELSE [q EXCEPT !.user = q.token.userId, !.events = Append(@, "next")]

\* adminMiddleware: 403 unless the user is found and is an admin.
AdminMiddleware(q) ==
    IF ~IsAdmin(FindById(q.user)) THEN Done(Respond(q, 403))
    ELSE [q EXCEPT !.events = Append(@, "next")]

\* The users in the storage.
AllUsers == {u \in DOMAIN users : users[u] # "absent"}

\* What the handler of an admin route answers.
AdminHandler(q, route) ==
    LET h == [q EXCEPT !.events = Append(@, "handler")]
    IN  IF route = "users"
        THEN Done(Respond([h EXCEPT !.result =
                              <<[users |-> {[id |-> u, role |-> users[u]] : u \in AllUsers}]>>],
                          200))
        ELSE IF route = "projects"
        THEN Done(Respond([h EXCEPT !.result =
                              <<[projects |-> {heap[projects[id]].id :
                                                  id \in {x \in ProjectIds : projects[x] # 0}}]>>],
                          200))
        ELSE IF route = "project"
        THEN IF projects[q.id] = 0
             THEN Done(Respond(h, 404))
             ELSE Done(Respond([h EXCEPT !.result = <<heap[projects[q.id]]>>], 200))
        ELSE Done(Respond([h EXCEPT !.result =
                              <<[totalUsers |-> Cardinality(AllUsers),
                                 totalAdmins |->
                                     Cardinality({u \in AllUsers : users[u] = "admin"}),
                                 totalProjects |->
                                     Cardinality({x \in ProjectIds : projects[x] # 0})]>>],
                          200))

AdminInit ==
    /\ NoCreateApp
    /\ NoCalls
    /\ NoImages
    /\ NoDims
    /\ NoUploads
    /\ envKey = "valid"
    /\ NoRegistrations
    /\ users = [a \in Accounts \cup {LaterAccount} |->
                   IF a = "root" THEN "admin"
                   ELSE IF a = LaterAccount THEN "absent" ELSE "student"]
    /\ heap = [ref \in HeapRefs |->
                  IF ref = StoredRef THEN StoredProject
                  ELSE IF ref = OtherRef THEN OtherProject ELSE Unallocated]
    /\ projects = [id \in ProjectIds |->
                      IF id = KnownId THEN StoredRef
                      ELSE IF id = OtherId THEN OtherRef ELSE 0]
    /\ disk = [id \in ProjectIds |->
                  IF id = KnownId THEN <<StoredProject>>
                  ELSE IF id = OtherId THEN <<OtherProject>> ELSE <<>>]
    /\ req = [r \in Requests |-> IdleRequest]
    /\ lastWriter = [ref \in HeapRefs |-> 0]

\* A request to an admin route: the two middlewares and the handler run one
\* after the other without an await.
AdminRequest(r) ==
    /\ CanArrive(r)
    /\ \E t \in Tokens, route \in AdminRoutes, pid \in RouteIds :
          /\ (route # "project") => pid = KnownId
          /\ LET q == [req[r] EXCEPT !.kind = "admin", !.token = t, !.arg = <<route>>,
                                     !.id = pid]
                 a == AuthMiddleware(q)
                 b == IF a.pc = "done" THEN a ELSE AdminMiddleware(a)
                 c == IF b.pc = "done" THEN b ELSE AdminHandler(b, route)
             IN  req' = [req EXCEPT ![r] = c]
    /\ UNCHANGED <<envKey, projects, heap, disk, lastWriter, outsideServer>>

\* POST /api/make-admin with the right secret, for the first student.
MakeAdmin ==
    /\ users["u1"] = "student"
    /\ users' = [users EXCEPT !["u1"] = "admin"]
    /\ UNCHANGED <<createAppVars, serverVars, concVars, imageVars, dimVars, uploadVars,
                 registerVars>>

\* POST /api/auth/register: createUser(email, password, name, role || 'student').
Register ==
    /\ users[LaterAccount] = "absent"
    /\ \E role \in {"student", "admin"} :
          users' = [users EXCEPT ![LaterAccount] = role]
    /\ UNCHANGED <<createAppVars, serverVars, concVars, imageVars, dimVars, uploadVars,
                 registerVars>>

AdminNext == (\E r \in Requests : AdminRequest(r)) \/ MakeAdmin \/ Register

AdminSpec == AdminInit /\ [][AdminNext]_vars

\* The handler of the route ran for the request.
ReachedHandler(q) == \E k \in 1..Len(q.events) : q.events[k] = "handler"

\* C25: a request reaches the handler of an admin route only with a token
\* that verifies and whose user is, at that time, in the storage with role
\* admin; without such a token it is answered 401, with the token of a user
\* who is no admin or is not in the storage 403, and no data is returned.
C25_AdminOnly ==
    [][\A r \in Requests :
          LET q == req'[r]
              valid == q.token.sig = "good"
              admin == valid /\ users[q.token.userId] = "admin"
          IN  (Arrives(r) /\ q.kind = "admin")
                  => /\ ReachedHandler(q) <=> admin
                     /\ ~valid => (q.status = 401 /\ q.result = <<>>)
                     /\ (valid /\ ~admin) => (q.status = 403 /\ q.result = <<>>)
                     /\ admin => q.status \in {200, 404}
                     /\ q.pc = "done"]_vars

\* The token of a user was refused while the user was a student and let
\* through after the user had been made admin.
C25_Witness ==
    /\ req[1].kind = "admin" /\ req[2].kind = "admin"
    /\ req[1].token = [sig |-> "good", userId |-> "u1"]
    /\ req[2].token = req[1].token
    /\ req[1].status = 403 /\ req[1].result = <<>>
    /\ req[2].status = 200 /\ ReachedHandler(req[2])
    /\ users["u1"] = "admin"

\* ------------------------------------------------------------------------
\* createApp: the file accumulator over one call (createApp.ts, 438-667)
\* ------------------------------------------------------------------------

\* The paths of a list of files.
PathsOf(list) == {list[k].path : k \in 1..Len(list)}

\* The paths held by the accumulator.
AccumulatedPaths == PathsOf(generatedFiles)

\* C37: within one createApp call no path leaves the accumulator: the paths
\* of the returned files include those of the existing files, and a call
\* started with existing files never fails with the 'no files' error.
C37_AccumulatorOnlyGrows ==
    /\ [][AccumulatedPaths \subseteq PathsOf(generatedFiles')]_vars
    /\ []((pc \notin {"start", "thrown"}) => PathsOf(existingFiles) \subseteq AccumulatedPaths)
    /\ [](pc = "returned" => /\ PathsOf(existingFiles) \subseteq PathsOf(files)
                             /\ AccumulatedPaths = PathsOf(files))
    /\ [](Len(existingFiles) > 0 => error # "no_files")

\* A call that started from one file has returned it with a second one.
C37_Witness ==
    /\ pc = "returned"
    /\ PathsOf(existingFiles) = {"a.html"}
    /\ PathsOf(files) = {"a.html", "b.css"}
    /\ calls >= 2

\* C39: for positive input width and height both target dimensions are at
\* least 1.
C39_DimensionsAtLeastOne ==
    (dimPc = "done" /\ metadata.width > 0 /\ metadata.height > 0)
        => (width >= 1 /\ height >= 1)

\* The owner, files, name and prompt of the project under an id stay.
Untouched(id) ==
    /\ projects'[id] # 0
    /\ heap'[projects'[id]].userId = heap[projects[id]].userId
    /\ heap'[projects'[id]].files = heap[projects[id]].files
    /\ heap'[projects'[id]].name = heap[projects[id]].name
    /\ heap'[projects'[id]].prompt = heap[projects[id]].prompt

\* C33: a step of a generate request never changes a project of another
\* user: when the id the request names holds a project whose userId is not
\* the request's user, that project keeps its userId, files, name and prompt.
C33_GenerateNeverTakesOver ==
    [][\A r \in Requests :
          (/\ req'[r] # req[r]
           /\ req'[r].kind = "generate"
           /\ req'[r].id \in ProjectIds
           /\ projects[req'[r].id] # 0
           /\ heap[projects[req'[r].id]].userId # req'[r].user)
              => Untouched(req'[r].id)]_vars

\* C38: a generate request is answered with exactly one HTTP response: no
\* second response is attempted after the first, and a request whose handler
\* has returned has been answered once.
C38_GenerateAnsweredOnce ==
    \A r \in Requests :
        req[r].kind = "generate"
            => /\ req[r].responses <= 1
               /\ req[r].pc = "done" => req[r].responses = 1

\* ------------------------------------------------------------------------
\* The project store under generate, iterate, rename and delete requests on
\* the same ids (src/unnamed/part_002, lines 699-1107)
\* ------------------------------------------------------------------------

StoreInit ==
    /\ NoCreateApp
    /\ NoCalls
    /\ NoImages
    /\ NoDims
    /\ NoUploads
    /\ envKey = "valid"
    /\ users = [a \in Accounts |-> IF a = "root" THEN "admin" ELSE "student"]
    /\ NoRegistrations
    /\ heap = [ref \in HeapRefs |-> IF ref = StoredRef THEN StoredProject ELSE Unallocated]
    /\ projects = [id \in ProjectIds |-> IF id = KnownId THEN StoredRef ELSE 0]
    /\ disk = [id \in ProjectIds |-> IF id = KnownId THEN <<StoredProject>> ELSE <<>>]
    /\ req = [r \in Requests |-> IdleRequest]
    /\ lastWriter = [ref \in HeapRefs |-> 0]

StoreNext ==
    \E r \in Requests :
        \/ GenerateArrive(r)
        \/ GeneratePlaceholderWritten(r)
        \/ GeneratePlaceholderWriteFails(r)
        \/ GenerateCreateAppDone(r)
        \/ GenerateResultWritten(r)
        \/ GenerateResultWriteFails(r)
        \/ GenerateErrorWritten(r)
        \/ GenerateErrorWriteFails(r)
        \/ IterateArrive(r)
        \/ IterateCreateAppDone(r)
        \/ IterateWritten(r)
        \/ IterateWriteFails(r)
        \/ RenameArrive(r)
        \/ RenameWritten(r)
        \/ RenameWriteFails(r)
        \/ DeleteArrive(r)
        \/ DeleteUnlinked(r)
        \/ DeleteUnlinkFails(r)

StoreSpec == StoreInit /\ [][StoreNext]_vars

\* The request in slot s arrived after the one in slot r, as a request of
\* the given kind on the same id that got past its checks.
LaterOn(r, s, kind) ==
    /\ s > r
    /\ req[s].kind = kind
    /\ req[s].id = req[r].id
    /\ req[s].events # <<>> \/ req[s].pc \notin {"idle", "done"} \/ req[s].status = 200

\* The rename request in slot r was answered with success.
Renamed(r) ==
    req[r].kind = "rename" /\ req[r].pc = "done" /\ req[r].status = 200

\* C34: a rename answered with success stays in effect: as long as the
\* project is in the Map and no later rename or generate request was made
\* for its id, the project carries the name of the rename, also when a
\* generation started before the rename ends after it.
C34_RenameStays ==
    \A r \in Requests :
        (/\ Renamed(r)
         /\ projects[req[r].id] # 0
         /\ \A s \in Requests : ~LaterOn(r, s, "rename") /\ ~LaterOn(r, s, "generate"))
            => heap[projects[req[r].id]].name = <<"renamed", r>>

\* The delete request in slot r was answered with success and no generate
\* request for its id has come since.
Deleted(r) ==
    /\ req[r].kind = "delete" /\ req[r].pc = "done" /\ req[r].status = 200
    /\ \A s \in Requests : ~LaterOn(r, s, "generate")

\* C35: once DELETE has answered with success and the id is in neither the
\* Map nor the directory, it stays out of both until a later generate
\* request for that id, whatever generation or iteration is still under way.
C35_DeletedStaysAbsent ==
    [][\A r \in Requests :
          (/\ Deleted(r)
           /\ projects[req[r].id] = 0
           /\ disk[req[r].id] = <<>>
           /\ Deleted(r)')
              => (projects'[req[r].id] = 0 /\ disk'[req[r].id] = <<>>)]_vars

\* No request or background generation is under way.
Quiescent == \A r \in Requests : req[r].pc \in {"idle", "done"}

\* A write or an unlink made for the request in slot r was rejected.
IoFailed(r) ==
    \/ WriteFailed(r)
    \/ req[r].kind = "rename" /\ req[r].status = 500
    \/ \E n \in 1..Len(req[r].events) : req[r].events[n] = "unlink_failed"

\* C36: at quiescence the directory and the Map agree, also when no write
\* and no unlink was rejected: there is a file for an id exactly if the id is
\* in the Map, and the file holds the files, name and prompt of the project
\* in memory.
C36_StoreConsistentAtQuiescence ==
    (Quiescent /\ \A r \in Requests : ~IoFailed(r))
        => \A id \in ProjectIds :
              /\ (disk[id] # <<>>) <=> (projects[id] # 0)
              /\ projects[id] # 0 /\ disk[id] # <<>>
                    => /\ disk[id][1].files = heap[projects[id]].files
                       /\ disk[id][1].name = heap[projects[id]].name
                       /\ disk[id][1].prompt = heap[projects[id]].prompt

\* ------------------------------------------------------------------------
\* Registration: POST /api/auth/register and UserStorage.createUser
\* (src/unnamed/part_002, lines 53-82 and 227-267)
\* ------------------------------------------------------------------------

\* The email fields of the request bodies: two spellings of one address,
\* another address, and none.
Emails == {"A@x", "a@x", "b@x"}

NoEmail == ""

\* email.toLowerCase()
ToLowerCase(email) == IF email = "A@x" THEN "a@x" ELSE email

\* The role fields of the request bodies; "omitted" is undefined.
Roles == {"omitted", "student", "admin"}

\* The course fields of the request bodies; "none" is undefined.
Courses == {"none", "Design Thinking"}

\* role || 'student', and the default of the parameter of createUser
RoleOrStudent(role) == IF role = "omitted" THEN "student" ELSE role

\* findByEmail(email): the first user whose email is the lower-cased argument.
FindByEmail(email) ==
    LET found == SelectSeq(userRecords, LAMBDA u : u.email = ToLowerCase(email))
    IN  IF found = <<>> THEN <<>> ELSE <<Head(found)>>

\* const user: User = {...}
NewUser(id, email, role, course) ==
    [id |-> id, email |-> ToLowerCase(email), role |-> role,
     course |-> IF role = "student" THEN course ELSE "none"]

\* this.users.set(user.id, user)
UsersSet(m, user) ==
    IF \E k \in 1..Len(m) : m[k].id = user.id
    THEN [k \in 1..Len(m) |-> IF m[k].id = user.id THEN user ELSE m[k]]
    ELSE Append(m, user)

\* res.status(400).json({ error })
Refused(q, message) == [q EXCEPT !.pc = "done", !.status = 400, !.error = message]

RegisterInit ==
    /\ NoCreateApp
    /\ NoServer
    /\ NoCalls
    /\ NoImages
    /\ NoDims
    /\ NoUploads
    /\ NoUsers

\* Registrations take the slots in order.
CanRegister(r) ==
    /\ reg[r].pc = "idle"
    /\ \A s \in Requests : s < r => reg[s].pc # "idle"

\* POST /api/auth/register up to `await bcrypt.hash(password, 10)` in
\* createUser: the checks of the handler and the duplicate check.
RegisterArrive(r) ==
    /\ CanRegister(r)
    /\ \E email \in Emails \cup {NoEmail}, role \in Roles, course \in Courses :
          LET q == [reg[r] EXCEPT !.email = email, !.role = role, !.course = course]
          IN  reg' = [reg EXCEPT ![r] =
                  IF email = NoEmail
                  THEN Refused(q, "required")
                  ELSE IF role = "student" /\ course = "none"
                  THEN Refused(q, "course_required")
                  ELSE IF FindByEmail(email) # <<>>
                  THEN Refused(q, "exists")
                  ELSE [q EXCEPT !.pc = "hash"]]
    /\ UNCHANGED <<userRecords, usersFile, clock>>
    /\ UNCHANGED <<createAppVars, serverVars, concVars, imageVars, dimVars, uploadVars, users>>

\* bcrypt.hash has settled: the user is made with id Date.now(), put in the
\* Map and saved, and the handler answers with the user and a token.
RegisterHashed(r) ==
    /\ reg[r].pc = "hash"
    /\ \E t \in {clock, clock + 1} :
          LET user == NewUser(t, reg[r].email, RoleOrStudent(reg[r].role), reg[r].course)
          IN  /\ t > 0
              /\ clock' = t
              /\ userRecords' = UsersSet(userRecords, user)
              /\ usersFile' = userRecords'
              /\ reg' = [reg EXCEPT ![r] = [@ EXCEPT !.pc = "done", !.status = 200,
                                                      !.id = t]]
    /\ UNCHANGED <<createAppVars, serverVars, concVars, imageVars, dimVars, uploadVars, users>>

RegisterNext == \E r \in Requests : RegisterArrive(r) \/ RegisterHashed(r)

RegisterSpec == RegisterInit /\ [][RegisterNext]_vars

\* C31: every user made by a registration with role student has a course: a
\* registration that gives a student, the role given as student or left out,
\* and names no course is refused with 400 and makes no user.
C31_StudentHasCourse ==
    /\ \A k \in 1..Len(userRecords) :
          userRecords[k].role = "student" => userRecords[k].course # "none"
    /\ \A r \in Requests :
          (reg[r].pc \in {"hash", "done"} /\ reg[r].email # NoEmail
              /\ RoleOrStudent(reg[r].role) = "student" /\ reg[r].course = "none")
             => (reg[r].pc = "done" /\ reg[r].status = 400)

\* C32: whatever the interleaving of the createUser calls, no two users of
\* the Map have the same email.
C32_EmailsUnique ==
    \A j, k \in 1..Len(userRecords) :
        j # k => userRecords[j].email # userRecords[k].email

====
